---------------------------- MODULE Spec2Model ----------------------------
(***************************************************************************)
(* A model of the LPGS -> ESPA conversion of the ESPA product formatter:   *)
(* read_lpgs_mtl (the MTL metadata text reader and band catalog builder),  *)
(* convert_gtif_to_img and convert_lpgs_to_espa (convert_lpgs_to_espa.c),  *)
(* and of the ESPA -> GeoTIFF conversion: convert_file_using_library and   *)
(* convert_espa_to_gtif (convert_espa_to_gtif.c).                          *)
(*                                                                         *)
(* Text is modelled as a sequence of chunks (short strings): a C string    *)
(* is the concatenation of its chunks, "" is <<>>.  Every decimal digit    *)
(* and every '.' is a chunk of its own (and every ' ' of a name given to   *)
(* convert_espa_to_gtif), so that sscanf("%d"), sprintf("%d"),             *)
(* strchr(s, '.'), strrchr(s, '.'), strchr(s, ' '), strncmp(s, prefix, n)  *)
(* and strstr are computed on the chunks as the C library computes them    *)
(* on characters.  Numbers read with %f/%lf are modelled by integers.      *)
(***************************************************************************)
EXTENDS Integers, Sequences, FiniteSets, TLC

(***************************************************************************)
(* The specifications share the operators and the actions below; each      *)
(* reads texts over its own set of lines, or converts its own set of       *)
(* scenes, and is bounded by the number of bands its inputs have           *)
(* (MaxCatalogBands, MaxSceneBands, MaxEnumBands, MaxConvertBands,         *)
(* MaxAttributeBands, MaxNumericBands, MaxGtifBands, MaxStreamBands,       *)
(* MaxNameBands, MaxThermalBands, MaxOrderBands; the scenario is bounded   *)
(* by its text, the round trip and the handles by MaxLines, MaxSamps and   *)
(* MaxSeed, the corners by MaxCorner, the band table by MAX_LPGS_BANDS).   *)
(***************************************************************************)

(***************************************************************************)

(***************************************************************************)
(* Program constants.                                                      *)
(***************************************************************************)
\* size of band_info[], convert_lpgs_bands[] and lpgs_bands[]
MAX_LPGS_BANDS == 12

\* fill value of an unset numeric metadata field
ESPA_FLOAT_META_FILL == -3333

\* fill value of an unset integer metadata field
ESPA_INT_META_FILL == -3333

\* fill value of an unset metadata string
ESPA_STRING_META_FILL == <<"undefined">>

\* number of bits allocated for the bitmap description of a QA band
QA_NBITS == 16

(***************************************************************************)
(* C library functions on chunked text.                                    *)
(***************************************************************************)
DigitVal ==
  [c \in {"0", "1", "2", "3", "4", "5", "6", "7", "8", "9"} |->
     CASE c = "0" -> 0 [] c = "1" -> 1 [] c = "2" -> 2 [] c = "3" -> 3
       [] c = "4" -> 4 [] c = "5" -> 5 [] c = "6" -> 6 [] c = "7" -> 7
       [] c = "8" -> 8 [] c = "9" -> 9]

IsDigit(c) == c \in DOMAIN DigitVal

Min(S) == CHOOSE m \in S : \A n \in S : m <= n

\* number of leading digit chunks of s
DigitRun(s) ==
  IF \A k \in 1..Len(s) : IsDigit(s[k]) THEN Len(s)
  ELSE Min({k \in 1..Len(s) : ~IsDigit(s[k])}) - 1

RECURSIVE DigitsValue(_)
\* value of a sequence of digit chunks read as a decimal number
DigitsValue(s) ==
  IF s = <<>> THEN 0
  ELSE 10 * DigitsValue(SubSeq(s, 1, Len(s) - 1)) + DigitVal[s[Len(s)]]

\* sscanf(s, "%d", &v): n = number of items assigned, v the value
ScanInt(s) ==
  IF DigitRun(s) = 0 THEN [n |-> 0, v |-> 0]
  ELSE [n |-> 1, v |-> DigitsValue(SubSeq(s, 1, DigitRun(s)))]

RECURSIVE Decimal(_)
\* sprintf(s, "%d", n) for n >= 0
Decimal(n) ==
  LET d == CHOOSE c \in DOMAIN DigitVal : DigitVal[c] = n % 10
  IN  IF n < 10 THEN <<d>> ELSE Decimal(n \div 10) \o <<d>>

\* strncmp(s, prefix, strlen(prefix)) == 0
StartsWith(s, prefix) ==
  Len(s) >= Len(prefix) /\ SubSeq(s, 1, Len(prefix)) = prefix

\* strstr(s, sub) != NULL
Contains(s, sub) ==
  \E k \in 0..(Len(s) - Len(sub)) : SubSeq(s, k + 1, k + Len(sub)) = sub

\* ScanBandId as it would be if the identifier had to be matched whole
ScanBandIdWhole(id) ==
  IF Len(id) >= 2 /\ id[1] = "BAND_" /\ IsDigit(id[2])
  THEN LET nd   == DigitRun(Tail(id))
           bnum == DigitsValue(SubSeq(id, 2, 1 + nd))
           rest == SubSeq(id, 2 + nd, Len(id))
       IN  IF Len(rest) >= 2 /\ rest[1] = "_VCID_" /\ IsDigit(rest[2])
              /\ Len(rest) = 1 + DigitRun(Tail(rest))
           THEN [n |-> 2, bnum |-> bnum,
                 vcid |-> DigitsValue(SubSeq(rest, 2, Len(rest)))]
           ELSE IF rest = <<>> THEN [n |-> 1, bnum |-> bnum, vcid |-> 0]
           ELSE [n |-> 0, bnum |-> 0, vcid |-> 0]
  ELSE [n |-> 0, bnum |-> 0, vcid |-> 0]

\* sscanf(id, "BAND_%d_VCID_%d", &bnum, &vcid): n = number of items assigned
ScanBandId(id) ==
  IF Len(id) >= 2 /\ id[1] = "BAND_" /\ IsDigit(id[2])
  THEN LET nd   == DigitRun(Tail(id))
           bnum == DigitsValue(SubSeq(id, 2, 1 + nd))
           rest == SubSeq(id, 2 + nd, Len(id))
       IN  IF Len(rest) >= 2 /\ rest[1] = "_VCID_" /\ IsDigit(rest[2])
           THEN [n |-> 2, bnum |-> bnum,
                 vcid |-> DigitsValue(SubSeq(rest, 2, 1 + DigitRun(Tail(rest))))]
           ELSE [n |-> 1, bnum |-> bnum, vcid |-> 0]
  ELSE [n |-> 0, bnum |-> 0, vcid |-> 0]

(***************************************************************************)
(* band_information_t and the band table of read_lpgs_mtl.                 *)
(***************************************************************************)
\* one slot of band_info[] after memset(band_info, 0, sizeof(band_info))
ZeroBandInfo ==
  [id |-> <<>>, fname |-> <<>>, category |-> <<>>, band_num |-> <<>>,
   data_type |-> "ESPA_INT8", thermal |-> FALSE, min |-> 0, max |-> 0,
   gain |-> 0, bias |-> 0, refl_gain |-> 0, refl_bias |-> 0,
   k1 |-> 0, k2 |-> 0]

\* get_band_info as it would be if it returned the slot filled last instead of
\* the slot of the identifier
get_band_info_latest(band_info, id) ==
  LET used == {k \in 0..(MAX_LPGS_BANDS - 1) : band_info[k].id # <<>>}
  IN  IF used = {} THEN -1 ELSE CHOOSE k \in used : \A j \in used : j <= k

\* get_band_info: the index of the first slot whose id is `id`, scanning from
\* slot 0 until a slot with an empty id; -1 (NULL) when the scan ends without
\* a match; MAX_LPGS_BANDS when the scan runs off the end of the table
get_band_info(band_info, id) ==
  LET empties == {k \in 0..(MAX_LPGS_BANDS - 1) : band_info[k].id = <<>>}
      stop    == IF empties = {} THEN MAX_LPGS_BANDS ELSE Min(empties)
      hits    == {k \in 0..(stop - 1) : band_info[k].id = id}
  IN  IF hits # {} THEN Min(hits)
      ELSE IF stop = MAX_LPGS_BANDS THEN MAX_LPGS_BANDS
      ELSE -1

(***************************************************************************)
(* The lines of the MTL text.  strtok() splits a line into a label and a   *)
(* value.  A label is a keyword, for the per-band records followed by '_'  *)
(* and the band identifier (QUANTIZE_CAL_<sub>_<id> carries MIN or MAX in  *)
(* between).                                                               *)
(***************************************************************************)
Line(key, sub, id, value) == [key |-> key, sub |-> sub, id |-> id, value |-> value]

\* Fail as it would be if the message were given to error_handler and the
\* return forgotten
FailWithoutReturn(st, msg) == [st EXCEPT !.errmsg = msg]

\* return ERROR after error_handler(true, FUNC_NAME, msg)
Fail(st, msg) == [st EXCEPT !.status = "ERROR", !.errmsg = msg]

\* a read or write outside band_info[]: undefined behaviour
OutOfBounds(st) == [st EXCEPT !.status = "UNDEFINED"]

\* the state of read_lpgs_mtl when the line loop starts; the automatic
\* structures tmp_bmeta, tmp_bmeta_th and tmp_bmeta_pan are not initialised
Uninit == -1

UninitBmeta == [nlines |-> Uninit, nsamps |-> Uninit, resample_method |-> "UNINIT"]

\* init_metadata_struct(&xml_metadata).global
InitGlobalMeta ==
  [satellite |-> ESPA_STRING_META_FILL, instrument |-> ESPA_STRING_META_FILL,
   product_id |-> ESPA_STRING_META_FILL, proj_type |-> "UNSET",
   datum_type |-> "ESPA_NODATUM", grid_origin |-> ESPA_STRING_META_FILL,
   solar_azimuth |-> ESPA_FLOAT_META_FILL, earth_sun_dist |-> ESPA_FLOAT_META_FILL,
   wrs_path |-> ESPA_INT_META_FILL, wrs_row |-> ESPA_INT_META_FILL,
   utm_zone |-> ESPA_INT_META_FILL]

\* IMAGE_ATTRIBUTES group; the result of sscanf is not looked at, and a value
\* that does not scan leaves the target as it was
ImageAttributes(st, l) ==
  LET num == ScanInt(l.value)
      Scanned(old) == IF num.n = 1 THEN num.v ELSE old
  IN
  IF l.key = "SPACECRAFT_ID"
  THEN IF l.value \in {<<"LANDSAT_9">>, <<"Landsat9">>}
       THEN [st EXCEPT !.gmeta.satellite = <<"LANDSAT_9">>]
       ELSE IF l.value \in {<<"LANDSAT_8">>, <<"Landsat8">>}
       THEN [st EXCEPT !.gmeta.satellite = <<"LANDSAT_8">>]
       ELSE IF l.value \in {<<"LANDSAT_7">>, <<"Landsat7">>}
       THEN [st EXCEPT !.gmeta.satellite = <<"LANDSAT_7">>]
       ELSE IF l.value \in {<<"LANDSAT_5">>, <<"Landsat5">>}
       THEN [st EXCEPT !.gmeta.satellite = <<"LANDSAT_5">>]
       ELSE IF l.value \in {<<"LANDSAT_4">>, <<"Landsat4">>}
       THEN [st EXCEPT !.gmeta.satellite = <<"LANDSAT_4">>]
       ELSE Fail(st, "Unsupported satellite type")
  ELSE IF l.key = "SENSOR_ID"
  THEN [st EXCEPT !.gmeta.instrument = l.value]
  ELSE IF l.key = "SUN_AZIMUTH"
  THEN [st EXCEPT !.gmeta.solar_azimuth = Scanned(@)]
  ELSE IF l.key = "EARTH_SUN_DISTANCE"
  THEN [st EXCEPT !.gmeta.earth_sun_dist = Scanned(@)]
  ELSE IF l.key = "WRS_PATH"
  THEN [st EXCEPT !.gmeta.wrs_path = Scanned(@)]
  ELSE IF l.key = "WRS_ROW"
  THEN [st EXCEPT !.gmeta.wrs_row = Scanned(@)]
  ELSE st

\* ProjectionCode as it would be if GEO were taken for the geographic
\* projection
ProjectionCodeGeographic(value) ==
  IF value = <<"UTM">> THEN "GCTP_UTM_PROJ"
  ELSE IF value = <<"PS">> THEN "GCTP_PS_PROJ"
  ELSE IF value = <<"AEA">> THEN "GCTP_ALBERS_PROJ"
  ELSE IF value = <<"GEO">> THEN "GCTP_GEO_PROJ"
  ELSE ""

\* the projection type of a MAP_PROJECTION value, "" for a value that is an
\* error
ProjectionCode(value) ==
  IF value = <<"UTM">> THEN "GCTP_UTM_PROJ"
  ELSE IF value = <<"PS">> THEN "GCTP_PS_PROJ"
  ELSE IF value = <<"AEA">> THEN "GCTP_ALBERS_PROJ"
  ELSE ""

\* PROJECTION_ATTRIBUTES group; the result of sscanf is not looked at, and a
\* value that does not scan leaves the target as it was
ProjectionAttributes(st, l) ==
  LET num == ScanInt(l.value)
      Scanned(old) == IF num.n = 1 THEN num.v ELSE old
  IN
  IF l.key = "MAP_PROJECTION"
  THEN IF ProjectionCode(l.value) # ""
       THEN [st EXCEPT !.gmeta.proj_type = ProjectionCode(l.value)]
       ELSE Fail(st, "Unsupported projection type")
  ELSE IF l.key = "DATUM"
  THEN IF l.value = <<"WGS84">> THEN [st EXCEPT !.gmeta.datum_type = "ESPA_WGS84"]
       ELSE Fail(st, "Unexpected datum type")
  ELSE IF l.key = "UTM_ZONE"
  THEN [st EXCEPT !.gmeta.utm_zone = Scanned(@)]
  ELSE IF l.key = "REFLECTIVE_SAMPLES"
  THEN [st EXCEPT !.tmp_bmeta.nsamps = Scanned(@)]
  ELSE IF l.key = "REFLECTIVE_LINES"
  THEN [st EXCEPT !.tmp_bmeta.nlines = Scanned(@)]
  ELSE IF l.key = "THERMAL_SAMPLES"
  THEN [st EXCEPT !.tmp_bmeta_th.nsamps = Scanned(@)]
  ELSE IF l.key = "THERMAL_LINES"
  THEN [st EXCEPT !.tmp_bmeta_th.nlines = Scanned(@)]
  ELSE IF l.key = "PANCHROMATIC_SAMPLES"
  THEN [st EXCEPT !.tmp_bmeta_pan.nsamps = Scanned(@)]
  ELSE IF l.key = "PANCHROMATIC_LINES"
  THEN [st EXCEPT !.tmp_bmeta_pan.nlines = Scanned(@)]
  ELSE st

\* LEVEL1_PROJECTION_PARAMETERS group
ProjectionParameters(st, l) ==
  IF l.key = "RESAMPLING_OPTION"
  THEN IF l.value = <<"CUBIC_CONVOLUTION">>
       THEN [st EXCEPT !.tmp_bmeta.resample_method = "ESPA_CC"]
       ELSE IF l.value = <<"NEAREST_NEIGHBOR">>
       THEN [st EXCEPT !.tmp_bmeta.resample_method = "ESPA_NN"]
       ELSE IF l.value = <<"BILINEAR">>
       THEN [st EXCEPT !.tmp_bmeta.resample_method = "ESPA_BI"]
       ELSE Fail(st, "Unsupported resampling option")
  ELSE st

\* the FILE_NAME block of the PRODUCT_CONTENTS group: the identifier is stored in
\* slot band_count before it is classified, and the slot is kept (band_count
\* incremented) only for the identifiers of interest
FileName(st, l) ==
  LET n     == st.band_count
      scan  == ScanBandId(l.id)
      named == [st EXCEPT !.band_info[n].id = l.id]
      Band(category, band_num, thermal) ==
        [named EXCEPT !.band_info[n].fname = l.value,
                      !.band_info[n].category = category,
                      !.band_info[n].band_num = band_num,
                      !.band_info[n].thermal = thermal,
                      !.band_count = n + 1]
  IN
  IF n >= MAX_LPGS_BANDS THEN OutOfBounds(st)
  ELSE IF scan.n > 0
  THEN Band("image",
            IF scan.vcid = 0 THEN Decimal(scan.bnum)
            ELSE Decimal(scan.bnum) \o Decimal(scan.vcid),
            (scan.bnum = 6 /\ (st.gmeta.instrument = <<"TM">> \/ scan.vcid # 0))
              \/ scan.bnum > 9)
  ELSE IF l.id = <<"QUALITY_L1_PIXEL">>
  THEN Band("qa", <<"bqa", "_pixel">>, FALSE)
  ELSE IF l.id = <<"QUALITY_L1_RADIOMETRIC_SATURATION">>
  THEN Band("qa", <<"bqa", "_radsat">>, FALSE)
  ELSE IF l.id = <<"ANGLE_SENSOR_AZIMUTH_BAND_4">>
  THEN Band("image", <<"sensor_", "azimuth", "_band4">>, FALSE)
  ELSE IF l.id = <<"ANGLE_SENSOR_ZENITH_BAND_4">>
  THEN Band("image", <<"sensor_", "zenith", "_band4">>, FALSE)
  ELSE IF l.id = <<"ANGLE_SOLAR_AZIMUTH_BAND_4">>
  THEN Band("image", <<"solar_", "azimuth", "_band4">>, FALSE)
  ELSE IF l.id = <<"ANGLE_SOLAR_ZENITH_BAND_4">>
  THEN Band("image", <<"solar_", "zenith", "_band4">>, FALSE)
  ELSE named

\* the DATA_TYPE block of the PRODUCT_CONTENTS group
DataType(st, l) ==
  LET k == get_band_info(st.band_info, l.id)
      Set(t) == [st EXCEPT !.band_info[k].data_type = t]
  IN
  IF k = -1 THEN Fail(st, "Band info not found for ID")
  ELSE IF k = MAX_LPGS_BANDS THEN OutOfBounds(st)
  ELSE IF l.value = <<"INT8">> THEN Set("ESPA_INT8")
  ELSE IF l.value = <<"UINT8">> THEN Set("ESPA_UINT8")
  ELSE IF l.value = <<"INT16">> THEN Set("ESPA_INT16")
  ELSE IF l.value = <<"UINT16">> THEN Set("ESPA_UINT16")
  ELSE IF l.value = <<"INT32">> THEN Set("ESPA_INT32")
  ELSE IF l.value = <<"UINT32">> THEN Set("ESPA_UINT32")
  ELSE IF l.value = <<"FLOAT32">> THEN Set("ESPA_FLOAT32")
  ELSE IF l.value = <<"FLOAT64">> THEN Set("ESPA_FLOAT64")
  ELSE Fail(st, "Unsupported data type")

\* PRODUCT_CONTENTS group
ProductContents(st, l) ==
  IF l.key = "FILE_NAME" THEN FileName(st, l)
  ELSE IF l.key = "DATA_TYPE" THEN DataType(st, l)
  ELSE IF l.key = "LANDSAT_PRODUCT_ID"
  THEN [st EXCEPT !.gmeta.product_id = l.value]
  ELSE st

\* a per-band numeric record: look the band up, scan the value, store it in
\* `field`; a value that does not scan is an error
BandNumber(st, l, field, msg) ==
  LET k   == get_band_info(st.band_info, l.id)
      num == ScanInt(l.value)
  IN
  IF k = -1 THEN Fail(st, "Band info not found for ID")
  ELSE IF k = MAX_LPGS_BANDS THEN OutOfBounds(st)
  ELSE IF num.n # 1 THEN Fail(st, msg)
  ELSE [st EXCEPT !.band_info[k][field] = num.v]

\* LEVEL1_MIN_MAX_PIXEL_VALUE group
MinMaxPixelValue(st, l) ==
  IF l.key = "QUANTIZE_CAL"
  THEN BandNumber(st, l, IF l.sub = "MIN" THEN "min" ELSE "max",
                  "CAL MIN/MAX not readable")
  ELSE st

\* LEVEL1_RADIOMETRIC_RESCALING group
RadiometricRescaling(st, l) ==
  IF l.key = "RADIANCE_MULT"
  THEN LET r == BandNumber(st, l, "gain", "RADIANCE_MULT not readable")
       IN  IF r.status = "OK" THEN [r EXCEPT !.gain_bias_available = TRUE] ELSE r
  ELSE IF l.key = "RADIANCE_ADD"
  THEN BandNumber(st, l, "bias", "RADIANCE_ADD not readable")
  ELSE IF l.key = "REFLECTANCE_MULT"
  THEN LET r == BandNumber(st, l, "refl_gain", "REFLECTANCE_MULT not readable")
       IN  IF r.status = "OK" THEN [r EXCEPT !.refl_gain_bias_available = TRUE] ELSE r
  ELSE IF l.key = "REFLECTANCE_ADD"
  THEN BandNumber(st, l, "refl_bias", "REFLECTANCE_ADD not readable")
  ELSE st

\* ThermalConstants as it would be if a label other than K1_CONSTANT and
\* K2_CONSTANT were an error
ThermalConstantsStrict(st, l) ==
  IF l.key \in {"K1_CONSTANT", "K2_CONSTANT"}
  THEN BandNumber(st, l, IF l.key = "K1_CONSTANT" THEN "k1" ELSE "k2",
                  "K1/2 constant not readable")
  ELSE Fail(st, "Unknown label")

\* LEVEL1_TIRS_THERMAL_CONSTANTS and LEVEL1_THERMAL_CONSTANTS groups
ThermalConstants(st, l) ==
  IF l.key \in {"K1_CONSTANT", "K2_CONSTANT"}
  THEN BandNumber(st, l, IF l.key = "K1_CONSTANT" THEN "k1" ELSE "k2",
                  "K1/2 constant not readable")
  ELSE st

\* one pass of the while (fgets ...) loop for a line other than END
ProcessLine(st, l) ==
  IF l.key = "GROUP" THEN [st EXCEPT !.group = l.value]
  ELSE IF l.key = "END_GROUP" THEN [st EXCEPT !.group = <<>>]
  ELSE IF st.group = <<"LEVEL1_PROCESSING_RECORD">> THEN st
  ELSE IF st.group = <<"IMAGE_ATTRIBUTES">> THEN ImageAttributes(st, l)
  ELSE IF st.group = <<"PROJECTION_ATTRIBUTES">> THEN ProjectionAttributes(st, l)
  ELSE IF st.group = <<"LEVEL1_PROJECTION_PARAMETERS">> THEN ProjectionParameters(st, l)
  ELSE IF st.group = <<"PRODUCT_CONTENTS">> THEN ProductContents(st, l)
  ELSE IF st.group = <<"LEVEL1_MIN_MAX_PIXEL_VALUE">> THEN MinMaxPixelValue(st, l)
  ELSE IF st.group = <<"LEVEL1_RADIOMETRIC_RESCALING">> THEN RadiometricRescaling(st, l)
  ELSE IF st.group \in {<<"LEVEL1_TIRS_THERMAL_CONSTANTS">>, <<"LEVEL1_THERMAL_CONSTANTS">>}
  THEN ThermalConstants(st, l)
  ELSE st

(***************************************************************************)
(* The band metadata (Espa_band_meta_t) filled in after the line loop.     *)
(***************************************************************************)
\* one band of allocate_band_metadata(metadata, nbands)
InitBandMeta ==
  [name |-> ESPA_STRING_META_FILL, short_name |-> ESPA_STRING_META_FILL,
   long_name |-> ESPA_STRING_META_FILL, category |-> "undefined",
   file_name |-> ESPA_STRING_META_FILL, data_units |-> "undefined",
   data_type |-> "ESPA_UINT8", resample_method |-> "ESPA_NONE",
   nlines |-> ESPA_INT_META_FILL, nsamps |-> ESPA_INT_META_FILL,
   valid_range |-> <<ESPA_FLOAT_META_FILL, ESPA_FLOAT_META_FILL>>,
   rad_gain |-> ESPA_FLOAT_META_FILL, rad_bias |-> ESPA_FLOAT_META_FILL,
   refl_gain |-> ESPA_FLOAT_META_FILL, refl_bias |-> ESPA_FLOAT_META_FILL,
   k1_const |-> ESPA_FLOAT_META_FILL, k2_const |-> ESPA_FLOAT_META_FILL,
   nbits |-> ESPA_INT_META_FILL, bitmap_description |-> <<>>]

\* the value read from a field of tmp_bmeta*: what the text set, or whatever
\* the stack held (junk) when the text set nothing
Resolve(v, unset, junk) == IF v = unset THEN junk ELSE v

\* ShortNamePrefix as it would be if every OLI/TIRS scene were of LANDSAT_8
ShortNamePrefixLC08(gmeta, old) ==
  IF gmeta.instrument = <<"TM">>
  THEN IF gmeta.satellite = <<"LANDSAT_4">> THEN <<"LT04">>
       ELSE IF gmeta.satellite = <<"LANDSAT_5">> THEN <<"LT05">>
       ELSE old
  ELSE IF StartsWith(gmeta.instrument, <<"ETM">>) THEN <<"LE07">>
  ELSE IF gmeta.instrument \in {<<"OLI", "_TIRS">>, <<"OLI">>, <<"TIRS">>}
  THEN <<"LC08">>
  ELSE old

\* strcpy (bmeta->short_name, ...) by instrument and satellite
ShortNamePrefix(gmeta, old) ==
  IF gmeta.instrument = <<"TM">>
  THEN IF gmeta.satellite = <<"LANDSAT_4">> THEN <<"LT04">>
       ELSE IF gmeta.satellite = <<"LANDSAT_5">> THEN <<"LT05">>
       ELSE old
  ELSE IF StartsWith(gmeta.instrument, <<"ETM">>) THEN <<"LE07">>
  ELSE IF gmeta.instrument \in {<<"OLI", "_TIRS">>, <<"OLI">>, <<"TIRS">>}
  THEN IF gmeta.satellite = <<"LANDSAT_8">> THEN <<"LC08">>
       ELSE IF gmeta.satellite = <<"LANDSAT_9">> THEN <<"LC09">>
       ELSE old
  ELSE old

\* the band name, long name and short name from binfo->band_num
BandNames(b, band_num) ==
  IF ScanInt(band_num).n = 1
  THEN [b EXCEPT !.name = <<"b">> \o band_num,
                 !.long_name = <<"band ">> \o band_num \o <<" digital numbers">>,
                 !.short_name = @ \o <<"DN">>]
  ELSE LET n == [b EXCEPT !.name = band_num]
       IN  IF Contains(band_num, <<"bqa", "_pixel">>)
           THEN [n EXCEPT !.long_name = <<"pixel quality band">>,
                          !.short_name = @ \o <<"PQA">>]
           ELSE IF Contains(band_num, <<"bqa", "_radsat">>)
           THEN [n EXCEPT !.long_name = <<"saturation quality band">>,
                          !.short_name = @ \o <<"RADSAT">>]
           ELSE IF Contains(band_num, <<"sensor_", "azimuth", "_band4">>)
           THEN [n EXCEPT !.long_name = <<"band 4 sensor azimuth angles">>,
                          !.short_name = @ \o <<"SENAZ">>]
           ELSE IF Contains(band_num, <<"sensor_", "zenith", "_band4">>)
           THEN [n EXCEPT !.long_name = <<"band 4 sensor zenith angles">>,
                          !.short_name = @ \o <<"SENZEN">>]
           ELSE IF Contains(band_num, <<"solar_", "azimuth", "_band4">>)
           THEN [n EXCEPT !.long_name = <<"band 4 solar azimuth angles">>,
                          !.short_name = @ \o <<"SOLAZ">>]
           ELSE IF Contains(band_num, <<"solar_", "zenith", "_band4">>)
           THEN [n EXCEPT !.long_name = <<"band 4 solar zenith angles">>,
                          !.short_name = @ \o <<"SOLZEN">>]
           ELSE n

\* BandSize as it would be if every band took the reflective size
BandSizeReflective(b, binfo, tmp_bmeta, tmp_bmeta_th, tmp_bmeta_pan, junk) ==
  [b EXCEPT !.nlines = Resolve(tmp_bmeta.nlines, Uninit, junk.n),
            !.nsamps = Resolve(tmp_bmeta.nsamps, Uninit, junk.n)]

\* image size of a band: thermal, panchromatic (band 8) or reflective
BandSize(b, binfo, tmp_bmeta, tmp_bmeta_th, tmp_bmeta_pan, junk) ==
  LET src == IF binfo.thermal THEN tmp_bmeta_th
             ELSE IF binfo.band_num = <<"8">> THEN tmp_bmeta_pan
             ELSE tmp_bmeta
  IN  [b EXCEPT !.nlines = Resolve(src.nlines, Uninit, junk.n),
                !.nsamps = Resolve(src.nsamps, Uninit, junk.n)]

\* the 16 bit descriptions of the legacy "bqa" band
BqaBits(oli) ==
  [bit \in 0..(QA_NBITS - 1) |->
     CASE bit = 0 -> "Data Fill Flag (0 = valid data, 1 = invalid data)"
       [] bit = 1 -> IF oli
                     THEN "Terrain Occlusion (0 = not terrain occluded, 1 = terrain occluded)"
                     ELSE "Dropped Pixel (0 = not a dropped pixel , 1 = dropped pixel)"
       [] bit \in {2, 3} -> "Radiometric Saturation"
       [] bit = 4 -> "Cloud"
       [] bit \in {5, 6} -> "Cloud Confidence"
       [] bit \in {7, 8} -> "Cloud Shadow Confidence"
       [] bit \in {9, 10} -> "Snow/Ice Confidence"
       [] bit \in {11, 12} -> IF oli THEN "Cirrus Confidence" ELSE "Not used"
       [] OTHER -> "Not used"]

\* the 16 bit descriptions of the "bqa_pixel" band
BqaPixelBits(oli) ==
  [bit \in 0..(QA_NBITS - 1) |->
     CASE bit = 0 -> "Data Fill Flag (0 = valid data, 1 = invalid data)"
       [] bit = 1 -> "Dilated Cloud"
       [] bit = 2 -> "Cirrus"
       [] bit = 3 -> "Cloud"
       [] bit = 4 -> "Cloud Shadow"
       [] bit = 5 -> "Snow"
       [] bit = 6 -> "Clear"
       [] bit = 7 -> "Water"
       [] bit \in {8, 9} -> "Cloud Confidence"
       [] bit \in {10, 11} -> "Cloud Shadow Confidence"
       [] bit \in {12, 13} -> "Snow/Ice Confidence"
       [] OTHER -> IF oli THEN "Cirrus Confidence" ELSE "Not used"]

\* the 16 bit descriptions of the "bqa_radsat" band
BqaRadsatBits(oli) ==
  [bit \in 0..(QA_NBITS - 1) |->
     CASE bit = 0 -> "Band 1 Saturation"
       [] bit = 1 -> "Band 2 Saturation"
       [] bit = 2 -> "Band 3 Saturation"
       [] bit = 3 -> "Band 4 Saturation"
       [] bit = 4 -> "Band 5 Saturation"
       [] bit = 5 -> "Band 6 Saturation"
       [] bit = 6 -> "Band 7 Saturation"
       [] bit = 7 -> "Band 8 Saturation"
       [] bit = 8 -> IF oli THEN "Band 9 Saturation" ELSE "Band 6H Saturation"
       [] bit = 9 -> IF oli THEN "Band 10 Saturation" ELSE "Dropped Pixel"
       [] bit = 10 -> IF oli THEN "Band 11 Saturation" ELSE "Not used"
       [] bit = 11 -> IF oli THEN "Terrain Occlusion" ELSE "Not used"
       [] OTHER -> "Not used"]

\* !strncmp(gmeta->instrument, "OLI", 3): the OLI variant of a bit description
IsOLI(instrument) == StartsWith(instrument, <<"OLI">>)

\* QaAndAngle as it would be if the bit descriptions of the bqa_radsat band
\* were never written: the table is allocated and left empty
QaAndAngleRadsatUnset(b, binfo, gmeta) ==
  IF StartsWith(binfo.band_num, <<"bqa">>)
  THEN LET q == [b EXCEPT !.data_units = IF binfo.band_num = <<"bqa", "_radsat">>
                                         THEN "bitmap"
                                         ELSE "quality/feature classification",
                          !.valid_range = <<0, 65535>>,
                          !.rad_gain = ESPA_FLOAT_META_FILL,
                          !.rad_bias = ESPA_FLOAT_META_FILL,
                          !.nbits = QA_NBITS,
                          !.bitmap_description = [bit \in 0..(QA_NBITS - 1) |-> ""]]
       IN  IF binfo.band_num = <<"bqa", "_pixel">>
           THEN [q EXCEPT !.bitmap_description = BqaPixelBits(IsOLI(gmeta.instrument))]
           ELSE q
  ELSE b

\* "If this is a QA band, then overwrite some things", and the angle bands
QaAndAngle(b, binfo, gmeta) ==
  IF StartsWith(binfo.band_num, <<"bqa">>)
  THEN LET q == [b EXCEPT !.data_units = IF binfo.band_num = <<"bqa", "_radsat">>
                                         THEN "bitmap"
                                         ELSE "quality/feature classification",
                          !.valid_range = <<0, 65535>>,
                          !.rad_gain = ESPA_FLOAT_META_FILL,
                          !.rad_bias = ESPA_FLOAT_META_FILL,
                          !.nbits = QA_NBITS,
                          !.bitmap_description = [bit \in 0..(QA_NBITS - 1) |-> ""]]
       IN  IF binfo.band_num = <<"bqa">>
           THEN [q EXCEPT !.bitmap_description = BqaBits(IsOLI(gmeta.instrument))]
           ELSE IF binfo.band_num = <<"bqa", "_pixel">>
           THEN [q EXCEPT !.bitmap_description = BqaPixelBits(IsOLI(gmeta.instrument))]
           ELSE IF binfo.band_num = <<"bqa", "_radsat">>
           THEN [q EXCEPT !.bitmap_description = BqaRadsatBits(IsOLI(gmeta.instrument))]
           ELSE q
  ELSE IF Contains(binfo.band_num, <<"zenith">>) \/ Contains(binfo.band_num, <<"azimuth">>)
  THEN [b EXCEPT !.valid_range =
                    <<IF Contains(binfo.band_num, <<"zenith">>) THEN 0 ELSE -18000, 18000>>,
                 !.rad_gain = ESPA_FLOAT_META_FILL,
                 !.rad_bias = ESPA_FLOAT_META_FILL,
                 !.data_units = "degrees"]
  ELSE b

\* the reflectance gain/bias and the K constants of a band
ReflAndThermal(b, binfo) ==
  IF binfo.category = "image"
  THEN IF binfo.thermal
       THEN [b EXCEPT !.k1_const = binfo.k1, !.k2_const = binfo.k2]
       ELSE [b EXCEPT !.refl_gain = binfo.refl_gain, !.refl_bias = binfo.refl_bias]
  ELSE [b EXCEPT !.refl_gain = ESPA_FLOAT_META_FILL, !.refl_bias = ESPA_FLOAT_META_FILL,
                 !.k1_const = ESPA_FLOAT_META_FILL, !.k2_const = ESPA_FLOAT_META_FILL]

\* one pass of the band loop: metadata->band[k] from band_info[k]
FillBand(st, k, junk) ==
  LET binfo == st.band_info[k]
      b1 == [InitBandMeta EXCEPT
               !.category = binfo.category,
               !.valid_range = <<binfo.min, binfo.max>>,
               !.rad_gain = IF st.gain_bias_available THEN binfo.gain ELSE @,
               !.rad_bias = IF st.gain_bias_available THEN binfo.bias ELSE @,
               !.data_units = "digital numbers",
               !.resample_method = Resolve(st.tmp_bmeta.resample_method, "UNINIT", junk.resample),
               !.data_type = binfo.data_type,
               !.short_name = ShortNamePrefix(st.gmeta, @)]
      b2 == IF st.refl_gain_bias_available THEN ReflAndThermal(b1, binfo) ELSE b1
      b3 == BandNames(b2, binfo.band_num)
      b4 == [b3 EXCEPT !.file_name = st.gmeta.product_id \o <<"_">> \o b3.name
                                       \o <<".", "img">>]
      b5 == BandSize(b4, binfo, st.tmp_bmeta, st.tmp_bmeta_th, st.tmp_bmeta_pan, junk)
  IN  QaAndAngle(b5, binfo, st.gmeta)

\* SensorValid as it would be if LANDSAT_7 took the instrument test of
\* LANDSAT_5 and LANDSAT_4
SensorValidTM(gmeta) ==
  IF gmeta.satellite \in {<<"LANDSAT_9">>, <<"LANDSAT_8">>}
  THEN gmeta.instrument \in {<<"OLI", "_TIRS">>, <<"OLI">>, <<"TIRS">>}
  ELSE IF gmeta.satellite \in {<<"LANDSAT_7">>, <<"LANDSAT_5">>, <<"LANDSAT_4">>}
  THEN gmeta.instrument = <<"TM">>
  ELSE FALSE

\* "Ensure that the SENSOR_ID is valid for the SPACECRAFT_ID"
SensorValid(gmeta) ==
  IF gmeta.satellite \in {<<"LANDSAT_9">>, <<"LANDSAT_8">>}
  THEN gmeta.instrument \in {<<"OLI", "_TIRS">>, <<"OLI">>, <<"TIRS">>}
  ELSE IF gmeta.satellite = <<"LANDSAT_7">> THEN gmeta.instrument = <<"ETM">>
  ELSE IF gmeta.satellite \in {<<"LANDSAT_5">>, <<"LANDSAT_4">>}
  THEN gmeta.instrument = <<"TM">>
  ELSE FALSE

\* read_lpgs_mtl after the line loop: the checks, the defaults, the band loop
\* and the bounding coordinates (geo_ok: get_geoloc_info, setup_mapping and
\* compute_bounds all succeed).  `band` is metadata->band (indexed from 0),
\* `nbands` metadata->nbands, and `filled` tells that the band loop has run (it
\* also sets *nlpgs_bands and lpgs_bands[]).
AfterLoop(st, junk, geo_ok) ==
  LET out == [st |-> st, nbands |-> 0, band |-> <<>>, filled |-> FALSE] IN
  IF ~SensorValid(st.gmeta)
  THEN [out EXCEPT !.st = Fail(st,
          IF st.gmeta.satellite \in {<<"LANDSAT_9">>, <<"LANDSAT_8">>, <<"LANDSAT_7">>,
                                     <<"LANDSAT_5">>, <<"LANDSAT_4">>}
          THEN "Unsupported sensor type"
          ELSE "SPACECRAFT_ID is required to validate SENSOR_ID")]
  ELSE IF st.band_count > MAX_LPGS_BANDS
  THEN [out EXCEPT !.st = Fail(st, "The total band count exceeds the maximum expected")]
  ELSE LET set  == [st EXCEPT !.gmeta.grid_origin = <<"CENTER">>]
           full == [st |-> set, filled |-> TRUE,
                    nbands |-> st.band_count,
                    band |-> [k \in 0..(st.band_count - 1) |-> FillBand(set, k, junk)]]
       IN  IF geo_ok THEN full
           ELSE [full EXCEPT !.st = Fail(set, "Setting up the geolocation mapping structure")]

(***************************************************************************)
(* convert_gtif_to_img and the band filter of convert_lpgs_to_espa.        *)
(***************************************************************************)
\* strchr(envi_file, '.') and strcpy(cptr, ".hdr"): the name up to its first '.'
\* followed by ".hdr"
EnviHeaderName(img_file) ==
  LET dot == Min({k \in 1..Len(img_file) : img_file[k] = "."})
  IN  SubSeq(img_file, 1, dot - 1) \o <<".", "hdr">>

\* the places where convert_gtif_to_img can fail on its environment
GtifFailures ==
  {"none", "XTIFFOpen", "open_raw_binary", "calloc", "TIFFReadScanline",
   "write_raw_binary", "create_envi_struct", "write_envi_hdr"}

\* the files `files` (a function from file name to data) with `name` holding `data`
Store(files, name, data) ==
  [n \in DOMAIN files \cup {name} |-> IF n = name THEN data ELSE files[n]]

\* unlink(name)
Unlink(files, name) == [n \in DOMAIN files \ {name} |-> files[n]]

\* convert_gtif_to_img(gtif_file, bmeta, gmeta) on the files `files`, failing
\* at `fail`: the status returned and the files afterwards.  open_raw_binary
\* with "wb" creates the raw binary file empty, write_raw_binary fills it with
\* the lines read from the GeoTIFF, write_envi_hdr writes the header.
convert_gtif_to_img(gtif_file, bmeta, files, fail) ==
  LET img_file == bmeta.file_name
      opened   == Store(files, img_file, <<>>)
      written  == Store(files, img_file, files[gtif_file])
  IN
  IF gtif_file \notin DOMAIN files \/ fail = "XTIFFOpen"
  THEN [status |-> "ERROR", files |-> files]
  ELSE IF fail = "open_raw_binary"
  THEN [status |-> "ERROR", files |-> files]
  ELSE IF bmeta.data_type \notin {"ESPA_UINT8", "ESPA_INT16", "ESPA_UINT16"}
          \/ fail \in {"calloc", "TIFFReadScanline", "write_raw_binary"}
  THEN [status |-> "ERROR", files |-> opened]
  ELSE IF fail \in {"create_envi_struct", "write_envi_hdr"}
  THEN [status |-> "ERROR", files |-> written]
  ELSE [status |-> "SUCCESS",
        files |-> Store(written, EnviHeaderName(img_file), <<"ENVI">>)]

\* ConvertStep as it would be if the source were removed inside the
\* "if (convert_lpgs_bands[i])" block
ConvertStepUnlinkConverted(lpgs_band, flag, bmeta, del, files, fail) ==
  LET c     == IF flag # 0 THEN convert_gtif_to_img(lpgs_band, bmeta, files, fail)
               ELSE [status |-> "SUCCESS", files |-> files]
      inc   == IF flag # 0 THEN 1 ELSE 0
  IN
  IF c.status # "SUCCESS"
  THEN [status |-> "ERROR", files |-> c.files, inc |-> 0, msg |-> "Converting band"]
  ELSE IF ~del \/ flag = 0
  THEN [status |-> "SUCCESS", files |-> c.files, inc |-> inc, msg |-> ""]
  ELSE IF lpgs_band \notin DOMAIN c.files
  THEN [status |-> "ERROR", files |-> c.files, inc |-> inc, msg |-> "Deleting source file"]
  ELSE [status |-> "SUCCESS", files |-> Unlink(c.files, lpgs_band), inc |-> inc, msg |-> ""]

\* one pass of the loop "Convert each of the LPGS GeoTIFF files to raw binary":
\* the status, the files afterwards and the new value of x
ConvertStep(lpgs_band, flag, bmeta, del, files, fail) ==
  LET c     == IF flag # 0 THEN convert_gtif_to_img(lpgs_band, bmeta, files, fail)
               ELSE [status |-> "SUCCESS", files |-> files]
      inc   == IF flag # 0 THEN 1 ELSE 0
  IN
  IF c.status # "SUCCESS"
  THEN [status |-> "ERROR", files |-> c.files, inc |-> 0, msg |-> "Converting band"]
  ELSE IF ~del
  THEN [status |-> "SUCCESS", files |-> c.files, inc |-> inc, msg |-> ""]
  ELSE IF lpgs_band \notin DOMAIN c.files
  THEN [status |-> "ERROR", files |-> c.files, inc |-> inc, msg |-> "Deleting source file"]
  ELSE [status |-> "SUCCESS", files |-> Unlink(c.files, lpgs_band), inc |-> inc, msg |-> ""]

\* bands to exclude, not used in SR/ST
exclude_bands ==
  {<<"b", "6", "2">>, <<"b", "8">>, <<"b", "9">>,
   <<"sensor_", "azimuth", "_band4">>, <<"sensor_", "zenith", "_band4">>,
   <<"solar_", "azimuth", "_band4">>}

\* memmove as it would be called with a count one element short
memmove_short(band, dst, src, count) ==
  [k \in DOMAIN band |->
     IF k >= dst /\ k < dst + count - 1 THEN band[k - dst + src] ELSE band[k]]

\* memmove(&band[dst], &band[src], count * sizeof(Espa_band_meta_t))
memmove(band, dst, src, count) ==
  [k \in DOMAIN band |->
     IF k >= dst /\ k < dst + count THEN band[k - dst + src] ELSE band[k]]

RECURSIVE RemoveLoop(_, _)
\* the loop "for (i = 0, x = 0; i < nlpgs_bands; i++, x++)" that removes the
\* unneeded bands, from the state s = [band, nbands, convert, i, x]
RemoveLoop(s, nlpgs) ==
  IF s.i >= nlpgs THEN s
  ELSE LET found == s.band[s.x].name \in exclude_bands
       IN  RemoveLoop(
             [band    |-> IF found /\ s.i < nlpgs - 1
                          THEN memmove(s.band, s.x, s.x + 1, nlpgs - s.i - 1)
                          ELSE s.band,
              nbands  |-> IF found THEN s.nbands - 1 ELSE s.nbands,
              convert |-> [s.convert EXCEPT ![s.i] = IF found THEN 0 ELSE 1],
              i       |-> s.i + 1,
              x       |-> IF found THEN s.x ELSE s.x + 1],
             nlpgs)

\* "If requested, remove unneeded bands"
RemoveUnneeded(band, nbands, convert, nlpgs, only) ==
  IF only
  THEN RemoveLoop([band |-> band, nbands |-> nbands, convert |-> convert,
                   i |-> 0, x |-> 0], nlpgs)
  ELSE [band |-> band, nbands |-> nbands, convert |-> convert, i |-> 0, x |-> 0]

(***************************************************************************)
(* convert_espa_to_gtif.c: the transcode of a raw binary band to GeoTIFF   *)
(* with the IAS library (convert_file_using_library).  A raw binary file   *)
(* is the sequence of its bytes; a GeoTIFF file is a record holding its    *)
(* scanlines, each the sequence of the bytes of one line.                  *)
(***************************************************************************)
\* "determing the IAS data type": "" for the default branch of the switch
IasDataType(data_type) ==
  CASE data_type = "ESPA_INT8" -> "IAS_CHAR"
    [] data_type = "ESPA_UINT8" -> "IAS_BYTE"
    [] data_type = "ESPA_INT16" -> "IAS_I2"
    [] data_type = "ESPA_UINT16" -> "IAS_UI2"
    [] data_type = "ESPA_INT32" -> "IAS_I4"
    [] data_type = "ESPA_UINT32" -> "IAS_UI4"
    [] data_type = "ESPA_FLOAT32" -> "IAS_R4"
    [] data_type = "ESPA_FLOAT64" -> "IAS_R8"
    [] OTHER -> ""

\* ias_misc_get_sizeof_data_type: the number of bytes of an element
SizeOfDataType(ias_data_type) ==
  CASE ias_data_type \in {"IAS_CHAR", "IAS_BYTE"} -> 1
    [] ias_data_type \in {"IAS_I2", "IAS_UI2"} -> 2
    [] ias_data_type \in {"IAS_I4", "IAS_UI4", "IAS_R4"} -> 4
    [] ias_data_type = "IAS_R8" -> 8

\* the values a data_type field can hold: the eight of Espa_data_type and one
\* outside the enumeration
DataTypes ==
  {"ESPA_INT8", "ESPA_UINT8", "ESPA_INT16", "ESPA_UINT16", "ESPA_INT32",
   "ESPA_UINT32", "ESPA_FLOAT32", "ESPA_FLOAT64", "ESPA_OTHER"}

\* the size of an element in a raw binary file
ElementSize(data_type) ==
  IF IasDataType(data_type) = "" THEN 1 ELSE SizeOfDataType(IasDataType(data_type))

\* "Make sure the projection code is one of the supported ones"
ProjectionSupported(proj_type) ==
  proj_type \in {"GCTP_GEO_PROJ", "GCTP_UTM_PROJ", "GCTP_ALBERS_PROJ", "GCTP_PS_PROJ"}

\* GridOriginSupported as it would be if every grid origin were taken
GridOriginAny(grid_origin) == TRUE

\* "Make sure the corners are center based"
GridOriginSupported(grid_origin) == grid_origin = <<"CENTER">>

\* read_raw_binary(fp, nlines, nsamps, nbytes, buffer): the first
\* nlines * nsamps * nbytes bytes of the file, an error when the file is shorter
read_raw_binary(data, nlines, nsamps, nbytes) ==
  IF Len(data) >= nlines * nsamps * nbytes
  THEN [status |-> "SUCCESS", buffer |-> SubSeq(data, 1, nlines * nsamps * nbytes)]
  ELSE [status |-> "ERROR", buffer |-> <<>>]

\* an opened GeoTIFF image nothing has been written to
EmptyImage == [scanlines |-> <<>>]

\* ias_l1g_write_image(l1g_band, 0, 0, 0, nlines, nsamps, buffer): the window
\* of nlines lines of nsamps samples at line 0, sample 0, taken line by line
\* from the buffer
ias_l1g_write_image(nlines, nsamps, nbytes, buffer) ==
  [scanlines |->
     [r \in 1..nlines |->
        SubSeq(buffer, (r - 1) * nsamps * nbytes + 1, r * nsamps * nbytes)]]

\* the places where convert_file_using_library can fail on its environment
LibraryFailures ==
  {"none", "open_raw_binary", "ias_misc_get_sizeof_data_type", "ias_l1g_open_image",
   "ias_l1g_set_file_metadata", "ias_l1g_set_band_metadata", "ias_l1g_open_band",
   "malloc", "read_raw_binary", "ias_l1g_write_image", "ias_l1g_close_band",
   "ias_l1g_close_image"}

\* convert_file_using_library(xml_metadata, espa_filename, geotiff_filename,
\* band_index) on the files `files`, failing at `fail`: the status returned,
\* the files afterwards and the message given to error_handler.  The output
\* file exists from ias_l1g_open_image on.
convert_file_using_library(metadata, espa_filename, geotiff_filename, band_index, files, fail) ==
  LET bmeta    == metadata.band[band_index]
      nlines   == bmeta.nlines
      nsamps   == bmeta.nsamps
      ias_data_type == IasDataType(bmeta.data_type)
      nbytes   == SizeOfDataType(ias_data_type)
      opened   == Store(files, geotiff_filename, EmptyImage)
      read     == read_raw_binary(files[espa_filename], nlines, nsamps, nbytes)
      written  == Store(files, geotiff_filename,
                        ias_l1g_write_image(nlines, nsamps, nbytes, read.buffer))
      Error(f, msg) == [status |-> "ERROR", files |-> f, msg |-> msg]
  IN
  IF espa_filename \notin DOMAIN files \/ fail = "open_raw_binary"
  THEN Error(files, "Error opening input raw binary file")
  ELSE IF ias_data_type = ""
  THEN Error(files, "Unsupported ESPA data type")
  ELSE IF fail = "ias_misc_get_sizeof_data_type"
  THEN Error(files, "Error getting size of IAS data type")
  ELSE IF ~ProjectionSupported(metadata.global.proj_type)
  THEN Error(files, "Unsupported projection code")
  ELSE IF metadata.global.datum_type # "ESPA_WGS84"
  THEN Error(files, "Unsupported datum")
  ELSE IF ~GridOriginSupported(metadata.global.grid_origin)
  THEN Error(files, "Unsupported corner grid origin")
  ELSE IF fail = "ias_l1g_open_image"
  THEN Error(files, "Error opening output GeoTIFF file")
  ELSE IF fail = "ias_l1g_set_file_metadata"
  THEN Error(opened, "Error setting file metadata in GeoTIFF file")
  ELSE IF fail = "ias_l1g_set_band_metadata"
  THEN Error(opened, "Error setting band metadata in GeoTIFF file")
  ELSE IF fail = "ias_l1g_open_band"
  THEN Error(opened, "Error opening output band in GeoTIFF file")
  ELSE IF fail = "malloc"
  THEN Error(opened, "Error allocating image buffer for file")
  ELSE IF fail = "read_raw_binary" \/ read.status # "SUCCESS"
  THEN Error(opened, "Error reading image data from raw binary file")
  ELSE IF fail = "ias_l1g_write_image"
  THEN Error(opened, "Error writing image data to GeoTIFF file")
  ELSE IF fail = "ias_l1g_close_band"
  THEN Error(written, "Error closing band in to GeoTIFF file")
  ELSE IF fail = "ias_l1g_close_image"
  THEN Error(written, "Error closing  GeoTIFF file")
  ELSE [status |-> "SUCCESS", files |-> written, msg |-> ""]

(***************************************************************************)
(* convert_gtif_to_img on the pixel data: the image buffer, the scanline   *)
(* loop and write_raw_binary.                                              *)
(***************************************************************************)
\* ImgElementSize as it would be if int8 were taken with uint8
ImgElementSizeInt8(data_type) ==
  CASE data_type \in {"ESPA_UINT8", "ESPA_INT8"} -> 1
    [] data_type = "ESPA_INT16" -> 2
    [] data_type = "ESPA_UINT16" -> 2
    [] OTHER -> 0

\* nbytes = sizeof(uint8), sizeof(int16) or sizeof(uint16) of "Allocate memory
\* for the entire image, based on the input data type"; 0 for the final else
ImgElementSize(data_type) ==
  CASE data_type = "ESPA_UINT8" -> 1
    [] data_type = "ESPA_INT16" -> 2
    [] data_type = "ESPA_UINT16" -> 2
    [] OTHER -> 0

\* BufferOffset as it would be if the line offset were counted in bytes
\* whatever the size of an element
BufferOffsetUnscaled(line, nsamps, nbytes) == line * nsamps

\* &file_buf_u8[i*bmeta->nsamps], &file_buf_i16[i*bmeta->nsamps] and
\* &file_buf_u16[i*bmeta->nsamps]: the byte offset of line i in the buffer
BufferOffset(line, nsamps, nbytes) == line * nsamps * nbytes

\* TIFFReadScanline(fp_tiff, &file_buf[offset], row, 0): the bytes of scanline
\* `row` copied to the buffer at `offset`; ok is FALSE when the image has no
\* such scanline, overflow tells that the copy ends outside the buffer
TIFFReadScanline(tif, file_buf, offset, row) ==
  IF row >= Len(tif.scanlines)
  THEN [ok |-> FALSE, overflow |-> FALSE, file_buf |-> file_buf]
  ELSE LET line == tif.scanlines[row + 1]
       IN  [ok |-> TRUE,
            overflow |-> offset + Len(line) > Len(file_buf),
            file_buf |-> [k \in 1..Len(file_buf) |->
                            IF k > offset /\ k <= offset + Len(line)
                            THEN line[k - offset] ELSE file_buf[k]]]

RECURSIVE ScanlineLoop(_, _, _, _, _)
\* "Loop through the lines in the TIFF file, reading and stuffing in the image
\* buffer", from line i on: the status, the buffer and the number of scanlines
\* read
ScanlineLoop(tif, file_buf, line, bmeta, nbytes) ==
  IF line >= bmeta.nlines
  THEN [status |-> "SUCCESS", file_buf |-> file_buf, nread |-> line]
  ELSE LET r == TIFFReadScanline(tif, file_buf,
                                 BufferOffset(line, bmeta.nsamps, nbytes), line)
       IN  IF ~r.ok
           THEN [status |-> "ERROR", file_buf |-> file_buf, nread |-> line]
           ELSE IF r.overflow
           THEN [status |-> "UNDEFINED", file_buf |-> r.file_buf, nread |-> line + 1]
           ELSE ScanlineLoop(tif, r.file_buf, line + 1, bmeta, nbytes)

\* write_raw_binary(fp_rb, nlines, nsamps, nbytes, file_buf)
write_raw_binary(nlines, nsamps, nbytes, file_buf) ==
  SubSeq(file_buf, 1, nlines * nsamps * nbytes)

\* convert_gtif_to_img(gtif_file, bmeta, gmeta) with the pixel data of the
\* files: the status returned, the files afterwards and the number of
\* scanlines read.  calloc gives a buffer of nlines * nsamps elements, all 0.
convert_gtif_to_img_data(gtif_file, bmeta, files, fail) ==
  LET img_file == bmeta.file_name
      opened   == Store(files, img_file, <<>>)
      nbytes   == ImgElementSize(bmeta.data_type)
      calloc   == [k \in 1..(bmeta.nlines * bmeta.nsamps * nbytes) |-> 0]
      loop     == ScanlineLoop(files[gtif_file], calloc, 0, bmeta, nbytes)
      written  == Store(files, img_file,
                        write_raw_binary(bmeta.nlines, bmeta.nsamps, nbytes,
                                         loop.file_buf))
      Error(f, n) == [status |-> "ERROR", files |-> f, nread |-> n]
  IN
  IF gtif_file \notin DOMAIN files \/ fail = "XTIFFOpen"
  THEN Error(files, 0)
  ELSE IF fail = "open_raw_binary"
  THEN Error(files, 0)
  ELSE IF nbytes = 0 \/ fail = "calloc"
  THEN Error(opened, 0)
  ELSE IF fail = "TIFFReadScanline"
  THEN Error(opened, 0)
  ELSE IF loop.status # "SUCCESS"
  THEN [status |-> loop.status, files |-> opened, nread |-> loop.nread]
  ELSE IF fail = "write_raw_binary"
  THEN Error(opened, loop.nread)
  ELSE IF fail \in {"create_envi_struct", "write_envi_hdr"}
  THEN [status |-> "ERROR", files |-> written, nread |-> loop.nread]
  ELSE [status |-> "SUCCESS", nread |-> loop.nread,
        files |-> Store(written, EnviHeaderName(img_file), <<"ENVI">>)]

\* what convert_gtif_to_img still holds when it returns: the TIFF handle
\* (fp_tiff, from XTIFFOpen until XTIFFClose), the raw binary handle (fp_rb,
\* from open_raw_binary until close_raw_binary) and the image buffer
\* (file_buf, from calloc until free); the only calls of XTIFFClose,
\* close_raw_binary and free come after write_raw_binary has succeeded
convert_gtif_to_img_held(gtif_file, bmeta, files, fail) ==
  LET nbytes == ImgElementSize(bmeta.data_type)
      calloc == [k \in 1..(bmeta.nlines * bmeta.nsamps * nbytes) |-> 0]
      loop   == ScanlineLoop(files[gtif_file], calloc, 0, bmeta, nbytes)
  IN
  IF gtif_file \notin DOMAIN files \/ fail = "XTIFFOpen" THEN {}
  ELSE IF fail = "open_raw_binary" THEN {"fp_tiff"}
  ELSE IF nbytes = 0 \/ fail = "calloc" THEN {"fp_tiff", "fp_rb"}
  ELSE IF fail = "TIFFReadScanline" \/ loop.status # "SUCCESS"
          \/ fail = "write_raw_binary"
  THEN {"fp_tiff", "fp_rb", "file_buf"}
  ELSE {}

(***************************************************************************)
(* convert_espa_to_gtif.c: one pass of the band loop of                    *)
(* convert_espa_to_gtif.  In a file name and in a band name every space    *)
(* is a chunk of its own.  The XML file is read from the current           *)
(* directory (source_dir is "").                                           *)
(***************************************************************************)
\* while ((cptr = strchr(gtif_band, ' ')) != NULL) *cptr = '_'
ReplaceSpaces(s) == [k \in 1..Len(s) |-> IF s[k] = " " THEN "_" ELSE s[k]]

\* "Determine the output GeoTIFF band name": snprintf "%s_%s.TIF" of the base
\* name and the band name, then the replacement of the spaces
GtifBandName(base, name) == ReplaceSpaces(base \o <<"_">> \o name \o <<".", "TIF">>)

\* strrchr(hdr_file, '.') and strcpy(cptr, ext): the name up to its last '.'
\* followed by the extension; <<>> stands for the write through the NULL
\* pointer when the name has no '.'
WithExtension(name, ext) ==
  LET dots == {k \in 1..Len(name) : name[k] = "."}
  IN  IF dots = {} THEN <<>>
      ELSE SubSeq(name, 1, (CHOOSE d \in dots : \A e \in dots : e <= d) - 1)
             \o <<".", ext>>

\* UsesLibrary as it would be if every band took the IAS library
UsesLibraryAlways(gmeta) == TRUE

\* "For WGS84, use the IAS library GeoTIFF IO library to convert the file"
UsesLibrary(gmeta) == gmeta.datum_type = "ESPA_WGS84"

\* the gdal_translate command: the nodata tag is given when the fill value is
\* defined
GdalCommand(bmeta, espa_band, gtif_band) ==
  [nodata |-> IF bmeta.fill_value = ESPA_INT_META_FILL THEN <<>>
              ELSE <<bmeta.fill_value>>,
   src |-> espa_band, dst |-> gtif_band]

\* what system(gdal_cmd) can return: -1 when no child process could be made,
\* else the wait status of the shell: 0, 256 (gdal_translate exits with 1) or
\* 32512 (exit 127: the shell found no gdal_translate).  gdal_translate cannot
\* succeed without its source.
SystemResults(files, espa_band) ==
  IF espa_band \in DOMAIN files THEN {-1, 0, 256, 32512} ELSE {-1, 256, 32512}

\* the files after gdal_translate -of Gtiff -co "TFW=YES" has exited with 0:
\* the GeoTIFF, its world file and, when `aux`, the .aux.xml file
GdalTranslate(files, bmeta, cmd, aux) ==
  LET tif == Store(files, cmd.dst,
                   ias_l1g_write_image(bmeta.nlines, bmeta.nsamps,
                                       ElementSize(bmeta.data_type), files[cmd.src]))
      tfw == Store(tif, WithExtension(cmd.dst, "tfw"), <<"TFW">>)
  IN  IF aux THEN Store(tfw, cmd.dst \o <<".", "aux", ".", "xml">>, <<"AUX">>)
      ELSE tfw

\* the else branch of "if (datum_type == ESPA_WGS84)": system() returns `sys`;
\* the .aux.xml file is removed and the result of unlink is not looked at
Fallback(bmeta, espa_band, gtif_band, files, sys, aux) ==
  LET cmd  == GdalCommand(bmeta, espa_band, gtif_band)
      ran  == IF sys = 0 THEN GdalTranslate(files, bmeta, cmd, aux) ELSE files
  IN  IF sys = -1
      THEN [status |-> "ERROR", files |-> files, msg |-> <<"Running gdal_translate">>]
      ELSE [status |-> "SUCCESS", msg |-> <<>>,
            files |-> Unlink(ran, gtif_band \o <<".", "aux", ".", "xml">>)]

\* "Remove the source file if specified": the .img file, then the .hdr file
RemoveSource(espa_band, files) ==
  LET hdr_file == WithExtension(espa_band, "hdr")
      Error(f) == [status |-> "ERROR", files |-> f, msg |-> <<"Deleting source file">>]
  IN  IF espa_band \notin DOMAIN files THEN Error(files)
      ELSE IF hdr_file = <<>>
      THEN [status |-> "UNDEFINED", files |-> Unlink(files, espa_band), msg |-> <<>>]
      ELSE IF hdr_file \notin DOMAIN files THEN Error(Unlink(files, espa_band))
      ELSE [status |-> "SUCCESS", msg |-> <<>>,
            files |-> Unlink(Unlink(files, espa_band), hdr_file)]

\* the environment of one pass of the band loop: where the IAS library fails,
\* what system() returns and whether gdal_translate leaves an .aux.xml file
Environments(gmeta, files, espa_band) ==
  IF UsesLibrary(gmeta)
  THEN {[fail |-> f, sys |-> 0, aux |-> FALSE] : f \in LibraryFailures}
  ELSE {[fail |-> "none", sys |-> s, aux |-> a] :
          s \in SystemResults(files, espa_band), a \in BOOLEAN}

\* one pass of the loop "Loop through the bands in the XML file and convert
\* them to GeoTIFF" for band band_index, in the environment env: the status,
\* the files afterwards, the messages given to error_handler, the name of the
\* GeoTIFF and the path taken with its result
GtifStep(metadata, band_index, base, del, files, env) ==
  LET bmeta     == metadata.band[band_index]
      gtif_band == GtifBandName(base, bmeta.name)
      espa_band == bmeta.file_name
      library   == UsesLibrary(metadata.global)
      l == convert_file_using_library(metadata, espa_band, gtif_band,
                                      band_index, files, env.fail)
      f == Fallback(bmeta, espa_band, gtif_band, files, env.sys, env.aux)
      c == IF library
           THEN [status |-> l.status, files |-> l.files,
                 msg |-> IF l.status = "SUCCESS" THEN <<>>
                         ELSE <<l.msg, "Converting espa source file">>]
           ELSE f
      r == IF del THEN RemoveSource(espa_band, c.files)
           ELSE [status |-> "SUCCESS", files |-> c.files, msg |-> <<>>]
      out == [status |-> c.status, files |-> c.files, msg |-> c.msg,
              gtif_band |-> gtif_band,
              path |-> IF library THEN "library" ELSE "gdal",
              library |-> IF library THEN l.status ELSE "NONE",
              system |-> IF library THEN 0 ELSE env.sys]
  IN  IF c.status # "SUCCESS" THEN out
      ELSE [out EXCEPT !.status = r.status, !.files = r.files, !.msg = r.msg]

(***************************************************************************)
(* The state of a run of convert_lpgs_to_espa.                             *)
(***************************************************************************)
VARIABLES
  pc,                        \* where the run of convert_lpgs_to_espa is
  del_src, sr_st_only,       \* arguments of convert_lpgs_to_espa
  group, band_info, band_count,             \* locals of read_lpgs_mtl
  gain_bias_available, refl_gain_bias_available,
  tmp_bmeta, tmp_bmeta_th, tmp_bmeta_pan,
  xml_metadata,              \* the metadata structure of convert_lpgs_to_espa
  nlpgs_bands, lpgs_bands, convert_lpgs_bands, i, x,
  files,                     \* the files of the directory: name -> data
  espa_xml_file,             \* what write_metadata wrote to the XML file
  stderr,                    \* the messages given to error_handler
  retval,                    \* the value convert_lpgs_to_espa returned
  given,                     \* history: the per-band field records read
  records,                   \* history: "valid", "orphan" or "repeated"
  unsupported,               \* history: the keys read with a value outside
                             \* their enumeration
  noted,                     \* history: the value text last read for each of
                             \* the scene keys NotedKeys
  gtif_file,                 \* argument of convert_espa_to_gtif: the base name
  gtif_xml_file,             \* what convert_espa_to_gtif wrote to <base>_gtif.xml
  transcoded                 \* history: the path each band of
                             \* convert_espa_to_gtif took and how it ended

vars ==
  <<pc, del_src, sr_st_only, group, band_info, band_count,
    gain_bias_available, refl_gain_bias_available,
    tmp_bmeta, tmp_bmeta_th, tmp_bmeta_pan, xml_metadata,
    nlpgs_bands, lpgs_bands, convert_lpgs_bands, i, x,
    files, espa_xml_file, stderr, retval, given, records, unsupported, noted,
    gtif_file, gtif_xml_file, transcoded>>

(***************************************************************************)
(* The lines a metadata text is made of.                                   *)
(***************************************************************************)
Group(name) == Line("GROUP", "", <<>>, <<name>>)

EndGroup == Line("END_GROUP", "", <<>>, <<>>)

Scene(key, value) == Line(key, "", <<>>, value)

\* FILE_NAME_<id> = "<id>.TIF"
FileNameOf(id) == Line("FILE_NAME", "", id, id \o <<".", "TIF">>)

Field(key, sub, id, value) == Line(key, sub, id, value)

BAND_1 == <<"BAND_", "1">>
BAND_2 == <<"BAND_", "2">>
BAND_3 == <<"BAND_", "3">>
BAND_4 == <<"BAND_", "4">>
BAND_5 == <<"BAND_", "5">>
BAND_6 == <<"BAND_", "6">>
BAND_7 == <<"BAND_", "7">>
BAND_6_VCID_2 == <<"BAND_", "6", "_VCID_", "2">>
BAND_8 == <<"BAND_", "8">>
BAND_9 == <<"BAND_", "9">>
BAND_10 == <<"BAND_", "1", "0">>
BAND_11 == <<"BAND_", "1", "1">>
METADATA_ODL == <<"METADATA_ODL">>
QUALITY_L1_PIXEL == <<"QUALITY_L1_PIXEL">>
QUALITY_L1_RADIOMETRIC_SATURATION == <<"QUALITY_L1_RADIOMETRIC_SATURATION">>
ANGLE_SENSOR_AZIMUTH_BAND_4 == <<"ANGLE_SENSOR_AZIMUTH_BAND_4">>

(***************************************************************************)
(* The run of convert_lpgs_to_espa.                                        *)
(***************************************************************************)
\* the scene keys whose value text the history variable `noted` keeps
NotedKeys ==
  {"MAP_PROJECTION", "DATUM", "UTM_ZONE", "SUN_AZIMUTH", "EARTH_SUN_DISTANCE",
   "WRS_PATH", "WRS_ROW"}

\* `noted` after line l is read in group g: the value of a scene key is noted
\* when the line is read in the group where read_lpgs_mtl looks for the key
Noted(g, l) ==
  IF \/ g = <<"IMAGE_ATTRIBUTES">>
          /\ l.key \in {"SUN_AZIMUTH", "EARTH_SUN_DISTANCE", "WRS_PATH", "WRS_ROW"}
     \/ g = <<"PROJECTION_ATTRIBUTES">>
          /\ l.key \in {"MAP_PROJECTION", "DATUM", "UTM_ZONE"}
  THEN [noted EXCEPT ![l.key] = l.value]
  ELSE noted

\* what an uninitialised automatic tmp_bmeta* may hold
Junk == {[n |-> 0, resample |-> "ESPA_NN"], [n |-> 9, resample |-> "JUNK"]}

\* init_metadata_struct(&xml_metadata)
InitMetadata == [global |-> InitGlobalMeta, nbands |-> 0, band |-> <<>>]

\* the state when convert_lpgs_to_espa calls read_lpgs_mtl and the line loop of
\* read_lpgs_mtl starts, in a directory holding `sources`
InitWith(dels, onlys, sources) ==
  /\ pc = "read"
  /\ del_src \in dels
  /\ sr_st_only \in onlys
  /\ group = <<>>
  /\ band_info = [k \in 0..(MAX_LPGS_BANDS - 1) |-> ZeroBandInfo]
  /\ band_count = 0
  /\ gain_bias_available = FALSE
  /\ refl_gain_bias_available = FALSE
  /\ tmp_bmeta = UninitBmeta
  /\ tmp_bmeta_th = UninitBmeta
  /\ tmp_bmeta_pan = UninitBmeta
  /\ xml_metadata = InitMetadata
  /\ nlpgs_bands = Uninit
  /\ lpgs_bands = [k \in 0..(MAX_LPGS_BANDS - 1) |-> <<>>]
  /\ convert_lpgs_bands = [k \in 0..(MAX_LPGS_BANDS - 1) |-> 16843009]
  /\ i = Uninit
  /\ x = Uninit
  /\ files = [n \in sources |-> n]
  /\ espa_xml_file = <<>>
  /\ stderr = <<>>
  /\ retval = "NONE"
  /\ given = {}
  /\ records = "valid"
  /\ unsupported = {}
  /\ noted = [k \in NotedKeys |-> <<>>]
  /\ gtif_file = <<>>
  /\ gtif_xml_file = <<>>
  /\ transcoded = <<>>

\* the state of read_lpgs_mtl as the line handlers see it
ReadState ==
  [group |-> group, band_info |-> band_info, band_count |-> band_count,
   gain_bias_available |-> gain_bias_available,
   refl_gain_bias_available |-> refl_gain_bias_available,
   tmp_bmeta |-> tmp_bmeta, tmp_bmeta_th |-> tmp_bmeta_th,
   tmp_bmeta_pan |-> tmp_bmeta_pan, gmeta |-> xml_metadata.global,
   status |-> "OK", errmsg |-> ""]

\* the field of band_information_t a line addresses in group g ("" when the
\* line is no per-band field record there)
FieldOf(g, l) ==
  IF g = <<"PRODUCT_CONTENTS">> /\ l.key = "DATA_TYPE" THEN "data_type"
  ELSE IF g = <<"LEVEL1_MIN_MAX_PIXEL_VALUE">> /\ l.key = "QUANTIZE_CAL"
  THEN IF l.sub = "MIN" THEN "min" ELSE "max"
  ELSE IF g = <<"LEVEL1_RADIOMETRIC_RESCALING">> /\ l.key = "RADIANCE_MULT" THEN "gain"
  ELSE IF g = <<"LEVEL1_RADIOMETRIC_RESCALING">> /\ l.key = "RADIANCE_ADD" THEN "bias"
  ELSE IF g = <<"LEVEL1_RADIOMETRIC_RESCALING">> /\ l.key = "REFLECTANCE_MULT"
  THEN "refl_gain"
  ELSE IF g = <<"LEVEL1_RADIOMETRIC_RESCALING">> /\ l.key = "REFLECTANCE_ADD"
  THEN "refl_bias"
  ELSE IF g \in {<<"LEVEL1_TIRS_THERMAL_CONSTANTS">>, <<"LEVEL1_THERMAL_CONSTANTS">>}
          /\ l.key \in {"K1_CONSTANT", "K2_CONSTANT"}
  THEN IF l.key = "K1_CONSTANT" THEN "k1" ELSE "k2"
  ELSE ""

\* the history of the per-band field records after line l: a record is an
\* orphan when no FILE_NAME record has created a band for its identifier,
\* repeated when the field was already given for that identifier
History(l) ==
  LET f       == FieldOf(group, l)
      created == \E k \in 0..(band_count - 1) : band_info[k].id = l.id
      again   == \E r \in given : r.id = l.id /\ r.field = f
      now     == IF records # "valid" \/ f = "" THEN records
                 ELSE IF ~created THEN "orphan"
                 ELSE IF again THEN "repeated"
                 ELSE "valid"
  IN  [records |-> now,
       given   |-> IF now # "valid" THEN {}
                   ELSE IF f = "" THEN given
                   ELSE given \cup {[id |-> l.id, field |-> f, value |-> l.value]}]

\* the values of the closed enumerations of the text
SupportedValues(key) ==
  CASE key = "SPACECRAFT_ID" ->
         {<<"LANDSAT_9">>, <<"Landsat9">>, <<"LANDSAT_8">>, <<"Landsat8">>,
          <<"LANDSAT_7">>, <<"Landsat7">>, <<"LANDSAT_5">>, <<"Landsat5">>,
          <<"LANDSAT_4">>, <<"Landsat4">>}
    [] key = "SENSOR_ID" ->
         {<<"OLI", "_TIRS">>, <<"OLI">>, <<"TIRS">>, <<"ETM">>, <<"TM">>}
    [] key = "MAP_PROJECTION" -> {<<"UTM">>, <<"PS">>, <<"AEA">>}
    [] key = "DATUM" -> {<<"WGS84">>}
    [] key = "RESAMPLING_OPTION" ->
         {<<"CUBIC_CONVOLUTION">>, <<"NEAREST_NEIGHBOR">>, <<"BILINEAR">>}
    [] key = "DATA_TYPE" ->
         {<<"INT8">>, <<"UINT8">>, <<"INT16">>, <<"UINT16">>, <<"INT32">>,
          <<"UINT32">>, <<"FLOAT32">>, <<"FLOAT64">>}

\* line l, read in group g, gives a key of a closed enumeration a value outside it
Unsupported(g, l) ==
  /\ \/ g = <<"IMAGE_ATTRIBUTES">> /\ l.key \in {"SPACECRAFT_ID", "SENSOR_ID"}
     \/ g = <<"PROJECTION_ATTRIBUTES">> /\ l.key \in {"MAP_PROJECTION", "DATUM"}
     \/ g = <<"LEVEL1_PROJECTION_PARAMETERS">> /\ l.key = "RESAMPLING_OPTION"
     \/ g = <<"PRODUCT_CONTENTS">> /\ l.key = "DATA_TYPE"
  /\ l.value \notin SupportedValues(l.key)

\* fgets() delivers line l (not END): one pass of the line loop.  An ERROR
\* makes read_lpgs_mtl and then convert_lpgs_to_espa return ERROR.
ReadLine(l) ==
  /\ pc = "read"
  /\ LET st == ProcessLine(ReadState, l)
          h  == History(l)
     IN  /\ group' = st.group
         /\ band_info' = st.band_info
         /\ band_count' = st.band_count
         /\ gain_bias_available' = st.gain_bias_available
         /\ refl_gain_bias_available' = st.refl_gain_bias_available
         /\ tmp_bmeta' = st.tmp_bmeta
         /\ tmp_bmeta_th' = st.tmp_bmeta_th
         /\ tmp_bmeta_pan' = st.tmp_bmeta_pan
         /\ xml_metadata' = [xml_metadata EXCEPT !.global = st.gmeta]
         /\ pc' = CASE st.status = "OK" -> "read"
                    [] st.status = "ERROR" -> "returned"
                    [] OTHER -> "undefined"
         /\ stderr' = IF st.status = "ERROR"
                      THEN stderr \o <<st.errmsg, "Reading the LPGS MTL file">>
                      ELSE stderr
         /\ retval' = IF st.status = "ERROR" THEN "ERROR" ELSE retval
         /\ given' = h.given
         /\ records' = h.records
         /\ unsupported' = IF Unsupported(group, l) THEN unsupported \cup {l.key}
                           ELSE unsupported
         /\ noted' = Noted(group, l)
  /\ UNCHANGED <<del_src, sr_st_only, nlpgs_bands, lpgs_bands,
                 convert_lpgs_bands, i, x, files, espa_xml_file,
                 gtif_file, gtif_xml_file, transcoded>>

\* fgets() returns NULL or delivers the END line: the line loop ends and
\* read_lpgs_mtl finishes the metadata
EndOfFile ==
  /\ pc = "read"
  /\ \E junk \in Junk, geo_ok \in BOOLEAN :
       LET r == AfterLoop(ReadState, junk, geo_ok)
       IN  /\ xml_metadata' = [global |-> r.st.gmeta, nbands |-> r.nbands,
                                band |-> r.band]
           /\ nlpgs_bands' = IF r.filled THEN r.nbands ELSE nlpgs_bands
           /\ lpgs_bands' = [k \in 0..(MAX_LPGS_BANDS - 1) |->
                               IF r.filled /\ k < r.nbands THEN band_info[k].fname
                               ELSE lpgs_bands[k]]
           /\ pc' = IF r.st.status = "OK" THEN "filter" ELSE "returned"
           /\ stderr' = IF r.st.status = "OK" THEN stderr
                        ELSE stderr \o <<r.st.errmsg, "Reading the LPGS MTL file">>
           /\ retval' = IF r.st.status = "OK" THEN retval ELSE "ERROR"
  /\ UNCHANGED <<del_src, sr_st_only, group, band_info, band_count,
                 gain_bias_available, refl_gain_bias_available,
                 tmp_bmeta, tmp_bmeta_th, tmp_bmeta_pan,
                 convert_lpgs_bands, i, x, files, espa_xml_file, given, records, unsupported, noted,
                 gtif_file, gtif_xml_file, transcoded>>

\* "If requested, remove unneeded bands"
RemoveUnneededBands ==
  /\ pc = "filter"
  /\ LET r == RemoveUnneeded(xml_metadata.band, xml_metadata.nbands,
                             convert_lpgs_bands, nlpgs_bands, sr_st_only)
     IN  /\ xml_metadata' = [xml_metadata EXCEPT !.band = r.band, !.nbands = r.nbands]
         /\ convert_lpgs_bands' = r.convert
         /\ i' = IF sr_st_only THEN r.i ELSE i
         /\ x' = IF sr_st_only THEN r.x ELSE x
  /\ pc' = "write"
  /\ UNCHANGED <<del_src, sr_st_only, group, band_info, band_count,
                 gain_bias_available, refl_gain_bias_available,
                 tmp_bmeta, tmp_bmeta_th, tmp_bmeta_pan, nlpgs_bands, lpgs_bands,
                 files, espa_xml_file, stderr, retval, given, records, unsupported, noted,
    gtif_file, gtif_xml_file, transcoded>>

\* write_metadata and validate_xml_file; `fail` is the one that fails
WriteMetadata ==
  /\ pc = "write"
  /\ \E fail \in {"none", "write_metadata", "validate_xml_file"} :
       /\ espa_xml_file' = IF fail = "write_metadata" THEN espa_xml_file
                           ELSE <<[global |-> xml_metadata.global,
                                   nbands |-> xml_metadata.nbands,
                                   band   |-> [k \in 0..(xml_metadata.nbands - 1) |->
                                                 xml_metadata.band[k]]]>>
       /\ pc' = IF fail = "none" THEN "convert" ELSE "returned"
       /\ retval' = IF fail = "none" THEN retval ELSE "ERROR"
       /\ i' = IF fail = "none" THEN 0 ELSE i
       /\ x' = IF fail = "none" THEN 0 ELSE x
  /\ UNCHANGED <<del_src, sr_st_only, group, band_info, band_count,
                 gain_bias_available, refl_gain_bias_available,
                 tmp_bmeta, tmp_bmeta_th, tmp_bmeta_pan, xml_metadata,
                 nlpgs_bands, lpgs_bands, convert_lpgs_bands, files, stderr,
                 given, records, unsupported, noted,
                 gtif_file, gtif_xml_file, transcoded>>

\* one pass of the loop over the LPGS bands: convert band i if it is flagged,
\* remove its source if asked to
ConvertBand ==
  /\ pc = "convert"
  /\ i < nlpgs_bands
  /\ \E fail \in GtifFailures :
       LET r == ConvertStep(lpgs_bands[i], convert_lpgs_bands[i],
                            xml_metadata.band[x], del_src, files, fail)
       IN  /\ files' = r.files
           /\ x' = x + r.inc
           /\ i' = IF r.status = "SUCCESS" THEN i + 1 ELSE i
           /\ pc' = IF r.status = "SUCCESS" THEN "convert" ELSE "returned"
           /\ retval' = IF r.status = "SUCCESS" THEN retval ELSE "ERROR"
           /\ stderr' = IF r.status = "SUCCESS" THEN stderr ELSE stderr \o <<r.msg>>
  /\ UNCHANGED <<del_src, sr_st_only, group, band_info, band_count,
                 gain_bias_available, refl_gain_bias_available,
                 tmp_bmeta, tmp_bmeta_th, tmp_bmeta_pan, xml_metadata,
                 nlpgs_bands, lpgs_bands, convert_lpgs_bands, espa_xml_file,
                 given, records, unsupported, noted,
                 gtif_file, gtif_xml_file, transcoded>>

\* the loop is over: free_metadata and "Successful conversion"
ReturnSuccess ==
  /\ pc = "convert"
  /\ i >= nlpgs_bands
  /\ pc' = "returned"
  /\ retval' = "SUCCESS"
  /\ UNCHANGED <<del_src, sr_st_only, group, band_info, band_count,
                 gain_bias_available, refl_gain_bias_available,
                 tmp_bmeta, tmp_bmeta_th, tmp_bmeta_pan, xml_metadata,
                 nlpgs_bands, lpgs_bands, convert_lpgs_bands, i, x, files,
                 espa_xml_file, stderr, given, records, unsupported, noted,
                 gtif_file, gtif_xml_file, transcoded>>

(***************************************************************************)
(* The band catalog: texts of FILE_NAME records and per-band field records *)
(* read by read_lpgs_mtl.                                                  *)
(***************************************************************************)
\* the number of bands a text of this specification creates
MaxCatalogBands == 2

CatalogIds == {BAND_1, BAND_2, METADATA_ODL}

CatalogLines ==
  {Group("PRODUCT_CONTENTS"), Group("LEVEL1_MIN_MAX_PIXEL_VALUE"),
   Group("IMAGE_ATTRIBUTES"), Scene("SPACECRAFT_ID", <<"LANDSAT_8">>),
   Scene("SENSOR_ID", <<"OLI", "_TIRS">>)}
    \cup {FileNameOf(id) : id \in CatalogIds}
    \cup {Field("DATA_TYPE", "", id, <<v>>) : id \in CatalogIds, v \in {"UINT8", "INT16"}}
    \cup {Field("QUANTIZE_CAL", "MIN", id, <<"1">>) : id \in CatalogIds}

InitCatalog == InitWith({FALSE}, {FALSE}, {})

ReadCatalog ==
  \E l \in CatalogLines :
    /\ l.key = "FILE_NAME" => band_count < MaxCatalogBands
    /\ ReadLine(l)

NextCatalog == ReadCatalog \/ EndOfFile

SpecCatalog == InitCatalog /\ [][NextCatalog]_vars

\* C1: a per-band field record whose identifier has no band created by an
\* earlier FILE_NAME record (an orphan record, the identifiers of skipped
\* FILE_NAME records included) makes read_lpgs_mtl fail with the not-found
\* error and return ERROR.
C1_OrphanRecordFails ==
  records = "orphan" =>
    /\ pc = "returned"
    /\ retval = "ERROR"
    /\ \E n \in 1..Len(stderr) : stderr[n] = "Band info not found for ID"

\* an orphan record of an identifier no FILE_NAME record named is rejected
C1_OrphanRejected ==
  /\ records = "orphan"
  /\ pc = "returned"
  /\ retval = "ERROR"
  /\ \A k \in 0..(MAX_LPGS_BANDS - 1) : band_info[k].id # METADATA_ODL

\* the value a field record stores in the band table
CatalogValue(r) ==
  IF r.field = "data_type"
  THEN CASE r.value = <<"INT8">> -> "ESPA_INT8"
         [] r.value = <<"UINT8">> -> "ESPA_UINT8"
         [] r.value = <<"INT16">> -> "ESPA_INT16"
         [] r.value = <<"UINT16">> -> "ESPA_UINT16"
         [] r.value = <<"INT32">> -> "ESPA_INT32"
         [] r.value = <<"UINT32">> -> "ESPA_UINT32"
         [] r.value = <<"FLOAT32">> -> "ESPA_FLOAT32"
         [] OTHER -> "ESPA_FLOAT64"
  ELSE ScanInt(r.value).v

\* the fields of a band that field records set
CatalogFields ==
  {"data_type", "min", "max", "gain", "bias", "refl_gain", "refl_bias", "k1", "k2"}

\* the band table as a function of the bands created and of the SET of the
\* field records read: a field of the first band of an identifier holds the
\* value of the record given for it, every other field is as memset left it
CatalogOfRecords(k, f) ==
  LET id    == band_info[k].id
      first == \A j \in 0..(k - 1) : band_info[j].id # id
      recs  == {r \in given : r.id = id /\ r.field = f}
  IN  IF first /\ recs # {} THEN CatalogValue(CHOOSE r \in recs : TRUE)
      ELSE ZeroBandInfo[f]

\* C5: for a valid record sequence (every field record after the FILE_NAME
\* record that created the band of its identifier, each field given at most
\* once per band) the band catalog depends only on the bands created and on
\* the set of field records read, not on the order the records came in.
C5_CatalogOrderInsensitive ==
  (records = "valid" /\ pc \in {"read", "filter"}) =>
    /\ \A k \in 0..(band_count - 1) : \A f \in CatalogFields :
         band_info[k][f] = CatalogOfRecords(k, f)
    /\ gain_bias_available = (\E r \in given : r.field = "gain")
    /\ refl_gain_bias_available = (\E r \in given : r.field = "refl_gain")

\* a successful read of two bands with field records for both of them
C5_TwoBandsWithRecords ==
  /\ records = "valid"
  /\ pc = "filter"
  /\ band_count = 2
  /\ band_info[0].id # band_info[1].id
  /\ \A k \in {0, 1} : \E r \in given : r.id = band_info[k].id
  /\ band_info[1].data_type = "ESPA_INT16"
  /\ band_info[0].data_type = "ESPA_UINT8"
  /\ band_info[0].min = 1

(***************************************************************************)
(* The bands of a scene: texts of SPACECRAFT_ID, SENSOR_ID and FILE_NAME   *)
(* records read by read_lpgs_mtl.                                          *)
(***************************************************************************)
\* the number of bands a text of this specification creates
MaxSceneBands == 2

SceneIds ==
  {BAND_6, BAND_6_VCID_2, BAND_10, QUALITY_L1_PIXEL,
   QUALITY_L1_RADIOMETRIC_SATURATION, ANGLE_SENSOR_AZIMUTH_BAND_4}

SceneLines ==
  {Group("IMAGE_ATTRIBUTES"), Group("PRODUCT_CONTENTS")}
    \cup {Scene("SPACECRAFT_ID", <<v>>) : v \in {"LANDSAT_8", "LANDSAT_7", "LANDSAT_5"}}
    \cup {Scene("SENSOR_ID", v) :
            v \in {<<"OLI", "_TIRS">>, <<"OLI">>, <<"TIRS">>, <<"ETM">>, <<"TM">>}}
    \cup {FileNameOf(id) : id \in SceneIds}

InitBands == InitWith({FALSE}, {FALSE}, {})

ReadBands ==
  \E l \in SceneLines :
    /\ l.key = "FILE_NAME" => band_count < MaxSceneBands
    /\ ReadLine(l)

NextBands == ReadBands \/ EndOfFile

SpecBands == InitBands /\ [][NextBands]_vars

\* the thermal band numbers of an instrument
ThermalBandNumbers(instrument) ==
  IF instrument = <<"TM">> THEN {6} \cup {n \in 10..99 : TRUE}
  ELSE {n \in 10..99 : TRUE}

\* C6: in the band table of a successful read, a band created from a
\* FILE_NAME_BAND_n[_VCID_m] record is thermal exactly when n is a thermal band
\* number of the scene's instrument or the identifier carries a VCID suffix;
\* quality and angle bands are not thermal.
C6_ThermalFlag ==
  pc = "filter" =>
    \A k \in 0..(band_count - 1) :
      LET scan == ScanBandId(band_info[k].id)
      IN  band_info[k].thermal =
            (/\ scan.n > 0
             /\ \/ scan.bnum \in ThermalBandNumbers(xml_metadata.global.instrument)
                \/ scan.n = 2)

\* a successful read of a TM scene whose band 6 is thermal
C6_ThermalBand6 ==
  /\ pc = "filter"
  /\ xml_metadata.global.instrument = <<"TM">>
  /\ \E k \in 0..(band_count - 1) :
       band_info[k].id = BAND_6 /\ band_info[k].thermal

\* the descriptions the schema of a quality band has for a bit
SchemaWords(name, bit) ==
  IF name = <<"bqa", "_pixel">>
  THEN {BqaPixelBits(TRUE)[bit], BqaPixelBits(FALSE)[bit]}
  ELSE IF name = <<"bqa", "_radsat">>
  THEN {BqaRadsatBits(TRUE)[bit], BqaRadsatBits(FALSE)[bit]}
  ELSE {}

\* C7: in the metadata of a successful read every band of category qa has a
\* bit-flag table of exactly 16 entries, each a description of the band's
\* schema, and no band of another category has a table.
C7_QualityTable ==
  pc = "filter" =>
    \A k \in 0..(xml_metadata.nbands - 1) :
      LET b == xml_metadata.band[k]
      IN  IF b.category = "qa"
          THEN /\ b.nbits = 16
               /\ DOMAIN b.bitmap_description = 0..15
               /\ \A bit \in 0..15 :
                    b.bitmap_description[bit] \in SchemaWords(b.name, bit)
          ELSE /\ b.bitmap_description = <<>>
               /\ b.nbits = ESPA_INT_META_FILL

\* a successful read with a saturation quality band and a band of another
\* category
C7_QualityAndImage ==
  /\ pc = "filter"
  /\ xml_metadata.nbands = 2
  /\ xml_metadata.band[0].category = "image"
  /\ xml_metadata.band[1].category = "qa"
  /\ xml_metadata.band[1].name = <<"bqa", "_radsat">>

\* C8: the instrument-dependent bits of a quality band (pixel QA 14-15,
\* saturation QA 8-11) have the OLI wording for OLI_TIRS, OLI and TIRS and the
\* TM/ETM+ wording for TM and ETM.
C8_InstrumentWording ==
  pc = "filter" =>
    \A k \in 0..(xml_metadata.nbands - 1) :
      LET b   == xml_metadata.band[k]
          d   == b.bitmap_description
          oli == xml_metadata.global.instrument \in
                   {<<"OLI", "_TIRS">>, <<"OLI">>, <<"TIRS">>}
      IN  /\ b.name = <<"bqa", "_pixel">> =>
               /\ d[14] = IF oli THEN "Cirrus Confidence" ELSE "Not used"
               /\ d[15] = IF oli THEN "Cirrus Confidence" ELSE "Not used"
          /\ b.name = <<"bqa", "_radsat">> =>
               /\ d[8] = IF oli THEN "Band 9 Saturation" ELSE "Band 6H Saturation"
               /\ d[9] = IF oli THEN "Band 10 Saturation" ELSE "Dropped Pixel"
               /\ d[10] = IF oli THEN "Band 11 Saturation" ELSE "Not used"
               /\ d[11] = IF oli THEN "Terrain Occlusion" ELSE "Not used"

\* a successful read of an OLI_TIRS scene with a pixel quality band in the
\* OLI wording
C8_OliWording ==
  /\ pc = "filter"
  /\ xml_metadata.global.instrument = <<"OLI", "_TIRS">>
  /\ \E k \in 0..(xml_metadata.nbands - 1) :
       /\ xml_metadata.band[k].name = <<"bqa", "_pixel">>
       /\ xml_metadata.band[k].bitmap_description[14] = "Cirrus Confidence"

(***************************************************************************)
(* The OLI_TIRS scenario: instrument OLI_TIRS, satellite LANDSAT_8,        *)
(* reflective bands 1-7 and 9, thermal bands 10-11, the pixel QA band and  *)
(* the saturation QA band.                                                 *)
(***************************************************************************)
\* the FILE_NAME records of the scenario, in the order of the text
ScenarioIds ==
  <<BAND_1, BAND_2, BAND_3, BAND_4, BAND_5, BAND_6, BAND_7, BAND_9, BAND_10,
    BAND_11, QUALITY_L1_PIXEL, QUALITY_L1_RADIOMETRIC_SATURATION>>

ScenarioLines ==
  {Group("IMAGE_ATTRIBUTES"), Group("PROJECTION_ATTRIBUTES"),
   Group("PRODUCT_CONTENTS"), Scene("SPACECRAFT_ID", <<"LANDSAT_8">>),
   Scene("SENSOR_ID", <<"OLI", "_TIRS">>),
   Scene("REFLECTIVE_LINES", <<"7">>), Scene("REFLECTIVE_LINES", <<"8">>),
   Scene("REFLECTIVE_SAMPLES", <<"7">>), Scene("THERMAL_LINES", <<"3">>),
   Scene("THERMAL_SAMPLES", <<"3">>), Scene("THERMAL_SAMPLES", <<"4">>)}
    \cup {FileNameOf(ScenarioIds[n]) : n \in 1..Len(ScenarioIds)}

InitScenario == InitWith({FALSE}, {FALSE}, {})

\* the FILE_NAME records come in the order of ScenarioIds, each once
ReadScenario ==
  \E l \in ScenarioLines :
    /\ l.key = "FILE_NAME" =>
         /\ group = <<"PRODUCT_CONTENTS">>
         /\ band_count < Len(ScenarioIds)
         /\ l.id = ScenarioIds[band_count + 1]
    /\ ReadLine(l)

NextScenario == ReadScenario \/ EndOfFile

SpecScenario == InitScenario /\ [][NextScenario]_vars

\* read_lpgs_mtl has read the whole scenario with success, the reflective and
\* the thermal sizes declared
ScenarioRead ==
  /\ pc = "filter"
  /\ band_count = Len(ScenarioIds)
  /\ xml_metadata.global.satellite = <<"LANDSAT_8">>
  /\ xml_metadata.global.instrument = <<"OLI", "_TIRS">>
  /\ tmp_bmeta.nlines # Uninit /\ tmp_bmeta.nsamps # Uninit
  /\ tmp_bmeta_th.nlines # Uninit /\ tmp_bmeta_th.nsamps # Uninit

\* every short name starts with LC08, bands 10 and 11 have the declared
\* thermal size and all other bands the declared reflective size
ScenarioNamesAndSizes ==
  \A k \in DOMAIN xml_metadata.band :
    LET b == xml_metadata.band[k]
        t == IF b.name \in {<<"b", "1", "0">>, <<"b", "1", "1">>}
             THEN tmp_bmeta_th ELSE tmp_bmeta
    IN  /\ StartsWith(b.short_name, <<"LC08">>)
        /\ b.nlines = t.nlines
        /\ b.nsamps = t.nsamps

\* C9 as the spec states it: the scenario yields 11 BandDescriptors, every
\* short name starts with LC08, bands 10-11 take the declared thermal size and
\* all other bands the declared reflective size.
C9_ElevenDescriptors ==
  ScenarioRead =>
    /\ xml_metadata.nbands = 11
    /\ DOMAIN xml_metadata.band = 0..10
    /\ ScenarioNamesAndSizes

\* C9, amended: the scenario names twelve bands (eight reflective, two
\* thermal, two quality) and read_lpgs_mtl yields 12 BandDescriptors; every
\* short name starts with LC08, bands 10-11 take the declared thermal size and
\* all other bands the declared reflective size.
C9_TwelveDescriptors ==
  ScenarioRead =>
    /\ xml_metadata.nbands = 12
    /\ DOMAIN xml_metadata.band = 0..11
    /\ ScenarioNamesAndSizes

\* the scenario read with different reflective and thermal sizes
C9_ScenarioRead ==
  /\ ScenarioRead
  /\ tmp_bmeta.nlines = 8
  /\ tmp_bmeta_th.nlines = 3
  /\ xml_metadata.band[9].name = <<"b", "1", "1">>
  /\ xml_metadata.band[9].nlines = 3
  /\ xml_metadata.band[0].nlines = 8

(***************************************************************************)
(* The closed enumerations: texts with supported and unsupported values,   *)
(* run through convert_lpgs_to_espa.                                       *)
(***************************************************************************)
\* the number of bands a text of this specification creates
MaxEnumBands == 1

EnumLines ==
  {Group("IMAGE_ATTRIBUTES"), Group("PROJECTION_ATTRIBUTES"),
   Group("LEVEL1_PROJECTION_PARAMETERS"), Group("PRODUCT_CONTENTS"),
   Scene("SPACECRAFT_ID", <<"LANDSAT_7">>), Scene("SPACECRAFT_ID", <<"LANDSAT_6">>),
   Scene("SENSOR_ID", <<"ETM">>), Scene("SENSOR_ID", <<"MSS">>),
   Scene("MAP_PROJECTION", <<"UTM">>), Scene("MAP_PROJECTION", <<"GEO">>),
   Scene("DATUM", <<"WGS84">>), Scene("DATUM", <<"NAD27">>),
   Scene("RESAMPLING_OPTION", <<"CUBIC_CONVOLUTION">>),
   Scene("RESAMPLING_OPTION", <<"MODE">>),
   FileNameOf(BAND_1),
   Field("DATA_TYPE", "", BAND_1, <<"UINT8">>),
   Field("DATA_TYPE", "", BAND_1, <<"BOOL">>)}

InitEnum == InitWith({FALSE}, {FALSE}, {FileNameOf(BAND_1).value})

ReadEnum ==
  \E l \in EnumLines :
    /\ l.key = "FILE_NAME" => band_count < MaxEnumBands
    /\ ReadLine(l)

NextEnum ==
  \/ ReadEnum
  \/ EndOfFile
  \/ RemoveUnneededBands
  \/ WriteMetadata
  \/ ConvertBand
  \/ ReturnSuccess

SpecEnum == InitEnum /\ [][NextEnum]_vars

\* read_lpgs_mtl has returned ERROR for a value outside its enumeration
UnsupportedValueError ==
  /\ retval = "ERROR"
  /\ \E n \in 1..Len(stderr) :
       stderr[n] \in {"Unsupported satellite type", "Unsupported sensor type",
                      "SPACECRAFT_ID is required to validate SENSOR_ID",
                      "Unsupported projection type", "Unexpected datum type",
                      "Unsupported resampling option", "Unsupported data type"}

\* no metadata file is written and no band is transcoded
NothingWritten ==
  /\ espa_xml_file = <<>>
  /\ \A name \in DOMAIN files : name[Len(name)] = "TIF"

\* C10 as the spec states it: a satellite, instrument, projection, datum,
\* resample-method or element-type value outside its enumeration makes
\* read_lpgs_mtl return ERROR with the caller's metadata structure carrying
\* none of the fields read before, and convert_lpgs_to_espa writes no
\* metadata file and transcodes no band.
C10_NoPartialMetadata ==
  (unsupported # {} /\ pc # "read") =>
    /\ retval = "ERROR"
    /\ xml_metadata = InitMetadata
    /\ NothingWritten

\* C10, amended: a satellite, projection, datum, resample-method or
\* element-type value outside its enumeration makes read_lpgs_mtl return
\* ERROR at that record, and so does an instrument outside the enumeration
\* when it is the instrument in effect at the end of the text; after such an
\* error the caller's metadata has no band (nbands 0, no descriptor) but keeps
\* the global fields read before, and convert_lpgs_to_espa writes no metadata
\* file and transcodes no band.
C10_UnsupportedValueIsFatal ==
  /\ (unsupported \ {"SENSOR_ID"} # {}) => (pc = "returned" /\ retval = "ERROR")
  /\ (pc # "read" /\ xml_metadata.global.instrument \notin SupportedValues("SENSOR_ID"))
       => (pc = "returned" /\ retval = "ERROR")
  /\ UnsupportedValueError =>
       /\ xml_metadata.nbands = 0
       /\ xml_metadata.band = <<>>
       /\ NothingWritten

\* an unsupported datum met after the satellite and a band were read: ERROR,
\* no band in the metadata, the satellite still in it
C10_ErrorAfterFields ==
  /\ "DATUM" \in unsupported
  /\ UnsupportedValueError
  /\ band_count = 1
  /\ xml_metadata.global.satellite = <<"LANDSAT_7">>
  /\ xml_metadata.nbands = 0

(***************************************************************************)
(* convert_lpgs_to_espa on texts of an ETM+ scene: the read, the band      *)
(* filter, the metadata file and the conversion of the bands.              *)
(***************************************************************************)
\* the number of bands a text of this specification creates
MaxConvertBands == 3

ConvertIds == {BAND_1, BAND_2, BAND_8}

ConvertLines ==
  {Group("IMAGE_ATTRIBUTES"), Group("PRODUCT_CONTENTS"),
   Scene("SPACECRAFT_ID", <<"LANDSAT_7">>), Scene("SENSOR_ID", <<"ETM">>),
   Scene("LANDSAT_PRODUCT_ID", <<"LE07_L1TP", ".", "T1">>)}
    \cup {FileNameOf(id) : id \in ConvertIds}
    \cup {Field("DATA_TYPE", "", id, <<"UINT8">>) : id \in ConvertIds}

\* the GeoTIFF files of the directory
ConvertSources == {FileNameOf(id).value : id \in ConvertIds}

Init == InitWith(BOOLEAN, BOOLEAN, ConvertSources)

\* the bands that are the first of their identifier and have no DATA_TYPE yet
Untyped ==
  {k \in 0..(band_count - 1) :
     /\ band_info[k].data_type # "ESPA_UINT8"
     /\ \A j \in 0..(k - 1) : band_info[j].id # band_info[k].id}

\* the order of the records in the texts: the scene records and the product
\* id come before the FILE_NAME records, and the DATA_TYPE records come in
\* the order of the FILE_NAME records
InOrder(l) ==
  CASE l.key = "FILE_NAME" ->
         /\ band_count < MaxConvertBands
         /\ xml_metadata.global.satellite # ESPA_STRING_META_FILL
         /\ xml_metadata.global.instrument # ESPA_STRING_META_FILL
    [] l.key \in {"SPACECRAFT_ID", "SENSOR_ID", "LANDSAT_PRODUCT_ID"} ->
         band_count = 0
    [] l.key = "DATA_TYPE" ->
         \A k \in Untyped : band_info[k].id = l.id \/ \E j \in Untyped : j < k
    [] OTHER -> TRUE

Read == \E l \in ConvertLines : InOrder(l) /\ ReadLine(l)

Next ==
  \/ Read
  \/ EndOfFile
  \/ RemoveUnneededBands
  \/ WriteMetadata
  \/ ConvertBand
  \/ ReturnSuccess

Spec == Init /\ [][Next]_vars

\* the name read_lpgs_mtl gives the band of a slot of the band table
NameOf(binfo) == BandNames(InitBandMeta, binfo.band_num).name

\* the indices of the bands the filter keeps
Kept == {j \in 0..(nlpgs_bands - 1) : xml_metadata.band[j].name \notin exclude_bands}

\* the filter step: the kept descriptors move up in their order, the count is
\* the number kept, the flags tell the kept indices, the source names stay
FilterCompacts ==
  (pc = "filter" /\ sr_st_only) =>
    /\ xml_metadata'.nbands = Cardinality(Kept)
    /\ \A j \in Kept :
         xml_metadata'.band[Cardinality({m \in Kept : m < j})] = xml_metadata.band[j]
    /\ \A j \in 0..(nlpgs_bands - 1) :
         convert_lpgs_bands'[j] = IF j \in Kept THEN 1 ELSE 0
    /\ lpgs_bands' = lpgs_bands

\* a successful pass of the conversion loop under filtering: the kept band
\* of index i is transcoded, into the file of its own descriptor, from the
\* source the text names for it; an excluded band yields no file
ConvertsAligned ==
  (pc = "convert" /\ sr_st_only /\ i' = i + 1) =>
    IF NameOf(band_info[i]) \notin exclude_bands
    THEN /\ x' = x + 1
         /\ xml_metadata.band[x].name = NameOf(band_info[i])
         /\ xml_metadata.band[x].data_type = band_info[i].data_type
         /\ files'[xml_metadata.band[x].file_name] = files[band_info[i].fname]
    ELSE /\ x' = x
         /\ DOMAIN files' \subseteq DOMAIN files

\* C2: with sr_st_only the bands named in the exclusion list are removed by
\* compaction, the remaining descriptors keep their order, and the k-th
\* remaining descriptor is transcoded from the source file at the original
\* index of its band.
C2_FilterKeepsOrderAndAlignment == [][FilterCompacts /\ ConvertsAligned]_vars

\* a filtered run that ended with success: an excluded band between two kept
\* bands, both transcoded
C2_FilteredRun ==
  /\ pc = "returned" /\ retval = "SUCCESS" /\ sr_st_only
  /\ band_count = 3
  /\ NameOf(band_info[0]) = <<"b", "2">>
  /\ NameOf(band_info[1]) = <<"b", "8">>
  /\ NameOf(band_info[2]) = <<"b", "1">>
  /\ xml_metadata.nbands = 2
  /\ xml_metadata.band[1].file_name \in DOMAIN files

\* the files of the directory whose name ends in .ext
FilesOf(ext) == {name \in DOMAIN files : name[Len(name)] = ext}

\* the created bands that the filter excludes
Excluded ==
  IF sr_st_only
  THEN {k \in 0..(band_count - 1) : NameOf(band_info[k]) \in exclude_bands}
  ELSE {}

\* C3: after a successful convert_lpgs_to_espa the band count of the metadata
\* written and the number of .img files both are the number of bands created
\* minus the number excluded, and there is one .hdr file per .img file.
C3_BandAndFileCounts ==
  (pc = "returned" /\ retval = "SUCCESS") =>
    /\ espa_xml_file[1].nbands = band_count - Cardinality(Excluded)
    /\ Cardinality(FilesOf("img")) = band_count - Cardinality(Excluded)
    /\ Cardinality(FilesOf("hdr")) = Cardinality(FilesOf("img"))

\* a successful run on a product id without '.', two bands, one excluded:
\* one .img and one .hdr
C3_CountsAgree ==
  /\ pc = "returned" /\ retval = "SUCCESS" /\ sr_st_only
  /\ xml_metadata.global.product_id = ESPA_STRING_META_FILL
  /\ band_count = 2 /\ Cardinality(Excluded) = 1
  /\ Cardinality(FilesOf("img")) = 1
  /\ Cardinality(FilesOf("hdr")) = 1

\* C4: after a successful convert_lpgs_to_espa with del_src no source file
\* named in the text remains, with and without sr_st_only; without del_src no
\* source file is ever removed.
C4_SourcesRemoved ==
  /\ (pc = "returned" /\ retval = "SUCCESS" /\ del_src) =>
       \A k \in 0..(band_count - 1) : band_info[k].fname \notin DOMAIN files
  /\ ~del_src => \A name \in ConvertSources : name \in DOMAIN files /\ files[name] = name

\* a successful run with del_src and sr_st_only on a kept and an excluded band
C4_FilteredAndRemoved ==
  /\ pc = "returned" /\ retval = "SUCCESS" /\ del_src /\ sr_st_only
  /\ band_count = 2
  /\ Cardinality(Excluded) = 1
  /\ FilesOf("img") # {}


(***************************************************************************)
(* The scene attributes: texts of SPACECRAFT_ID, SENSOR_ID, MAP_PROJECTION *)
(* and DATUM records, of supported and unsupported values, and a band,     *)
(* read by read_lpgs_mtl.                                                  *)
(***************************************************************************)
\* the number of bands a text of this specification creates
MaxAttributeBands == 1

AttributeLines ==
  {Group("IMAGE_ATTRIBUTES"), Group("PROJECTION_ATTRIBUTES"),
   Group("PRODUCT_CONTENTS"), FileNameOf(BAND_1)}
    \cup {Scene("SPACECRAFT_ID", <<v>>) :
            v \in {"LANDSAT_9", "LANDSAT_8", "LANDSAT_7", "LANDSAT_6", "LANDSAT_5",
                   "LANDSAT_4"}}
    \cup {Scene("SENSOR_ID", v) :
            v \in {<<"OLI", "_TIRS">>, <<"OLI">>, <<"TIRS">>, <<"ETM">>, <<"TM">>,
                   <<"MSS">>}}
    \cup {Scene("MAP_PROJECTION", <<v>>) : v \in {"UTM", "PS", "AEA", "GEO", "LCC"}}
    \cup {Scene("DATUM", <<v>>) : v \in {"WGS84", "NAD27"}}

InitAttributes == InitWith({FALSE}, {FALSE}, {})

ReadAttributes ==
  \E l \in AttributeLines :
    /\ l.key = "FILE_NAME" => band_count < MaxAttributeBands
    /\ ReadLine(l)

NextAttributes == ReadAttributes \/ EndOfFile

SpecAttributes == InitAttributes /\ [][NextAttributes]_vars

\* read_lpgs_mtl has reported a projection or a datum it does not take
ProjectionOrDatumError ==
  \E n \in 1..Len(stderr) :
    stderr[n] \in {"Unsupported projection type", "Unexpected datum type"}

\* the text's last MAP_PROJECTION and DATUM records are taken or fatal
\* according to the set `projections` of projection values: a value outside
\* the set, or a datum other than WGS84, makes read_lpgs_mtl return ERROR,
\* and a projection of the set with WGS84 gives no projection or datum error
AcceptsExactly(projections) ==
  /\ (\/ noted["MAP_PROJECTION"] \notin projections \cup {<<>>}
      \/ noted["DATUM"] \notin {<<"WGS84">>, <<>>})
       => (pc = "returned" /\ retval = "ERROR" /\ ProjectionOrDatumError)
  /\ (noted["MAP_PROJECTION"] \in projections /\ noted["DATUM"] = <<"WGS84">>)
       => (/\ ~ProjectionOrDatumError
           /\ xml_metadata.global.datum_type = "ESPA_WGS84"
           /\ xml_metadata.global.proj_type \in
                {"GCTP_UTM_PROJ", "GCTP_PS_PROJ", "GCTP_ALBERS_PROJ", "GCTP_GEO_PROJ"})

\* C11 as the spec states it: read_lpgs_mtl accepts the projection and datum
\* exactly when the projection is Geographic, UTM, Albers-Equal-Area or
\* Polar-Stereographic and the datum is WGS84; every other value is fatal.
C11_FourProjections ==
  AcceptsExactly({<<"GEO">>, <<"UTM">>, <<"AEA">>, <<"PS">>})

\* C11, amended: read_lpgs_mtl takes a MAP_PROJECTION record exactly when its
\* value is UTM, PS or AEA and a DATUM record exactly when its value is WGS84;
\* every other value, the geographic projection included, is fatal at its
\* record, and each of the three projections with WGS84 is accepted.
C11_ThreeProjections ==
  AcceptsExactly({<<"UTM">>, <<"AEA">>, <<"PS">>})

\* a successful read of an Albers-Equal-Area scene of datum WGS84
C11_AlbersAccepted ==
  /\ pc = "filter"
  /\ noted["MAP_PROJECTION"] = <<"AEA">>
  /\ noted["DATUM"] = <<"WGS84">>
  /\ xml_metadata.global.proj_type = "GCTP_ALBERS_PROJ"
  /\ xml_metadata.global.datum_type = "ESPA_WGS84"

\* the fixed table of satellites and their instruments
PairTable ==
  ({<<"LANDSAT_9">>, <<"LANDSAT_8">>} \X {<<"OLI", "_TIRS">>, <<"OLI">>, <<"TIRS">>})
    \cup {<< <<"LANDSAT_7">>, <<"ETM">> >>}
    \cup ({<<"LANDSAT_5">>, <<"LANDSAT_4">>} \X {<<"TM">>})

\* C13: read_lpgs_mtl succeeds only if the (satellite, instrument) pair of
\* the text is in the fixed table; every other pair, and a text without a
\* SPACECRAFT_ID or without a SENSOR_ID record (the field is still unset), is
\* rejected with ERROR before any band descriptor is made: the metadata has
\* no band and the caller's band table is untouched.
C13_PairTable ==
  LET pair == <<xml_metadata.global.satellite, xml_metadata.global.instrument>>
  IN  /\ pc = "filter" => pair \in PairTable
      /\ (pc # "read" /\ pair \notin PairTable) =>
           /\ pc = "returned" /\ retval = "ERROR"
           /\ xml_metadata.nbands = 0
           /\ xml_metadata.band = <<>>
           /\ nlpgs_bands = Uninit
           /\ \A k \in 0..(MAX_LPGS_BANDS - 1) : lpgs_bands[k] = <<>>

\* a LANDSAT_7 text with SENSOR_ID = TM and a band: rejected at the end of the
\* text, no band descriptor made
C13_PairRejected ==
  /\ pc = "returned" /\ retval = "ERROR"
  /\ xml_metadata.global.satellite = <<"LANDSAT_7">>
  /\ xml_metadata.global.instrument = <<"TM">>
  /\ band_count = 1
  /\ xml_metadata.nbands = 0
  /\ stderr = <<"Unsupported sensor type", "Reading the LPGS MTL file">>


(***************************************************************************)
(* The numeric fields: texts of scene-level and per-band numeric records,  *)
(* with values that scan as numbers and values that do not, read by        *)
(* read_lpgs_mtl.                                                          *)
(***************************************************************************)
\* the number of bands a text of this specification creates
MaxNumericBands == 1

NumericLines ==
  {Group("IMAGE_ATTRIBUTES"), Group("PROJECTION_ATTRIBUTES"),
   Group("PRODUCT_CONTENTS"), Group("LEVEL1_MIN_MAX_PIXEL_VALUE"),
   Group("LEVEL1_RADIOMETRIC_RESCALING"), Group("LEVEL1_THERMAL_CONSTANTS"),
   Scene("SPACECRAFT_ID", <<"LANDSAT_8">>), Scene("SENSOR_ID", <<"OLI", "_TIRS">>),
   FileNameOf(BAND_10)}
    \cup {Scene(key, <<v>>) : key \in {"WRS_PATH", "UTM_ZONE"}, v \in {"2", "x"}}
    \cup {Field("QUANTIZE_CAL", "MIN", BAND_10, <<v>>) : v \in {"1", "x"}}
    \cup {Field("RADIANCE_MULT", "", BAND_10, <<v>>) : v \in {"3", "x"}}
    \cup {Field("K1_CONSTANT", "", BAND_10, <<v>>) : v \in {"4", "x"}}

InitNumeric == InitWith({FALSE}, {FALSE}, {})

ReadNumeric ==
  \E l \in NumericLines :
    /\ l.key = "FILE_NAME" => band_count < MaxNumericBands
    /\ ReadLine(l)

NextNumeric == ReadNumeric \/ EndOfFile

SpecNumeric == InitNumeric /\ [][NextNumeric]_vars

\* the scene-level numeric keys of which a value was read that does not scan
UnparsedSceneKeys ==
  {k \in {"UTM_ZONE", "SUN_AZIMUTH", "EARTH_SUN_DISTANCE", "WRS_PATH", "WRS_ROW"} :
     noted[k] # <<>> /\ ScanInt(noted[k]).n = 0}

\* the per-band numeric records read whose value does not scan
UnparsedBandRecords ==
  {r \in given : r.field # "data_type" /\ ScanInt(r.value).n = 0}

\* C20: read_lpgs_mtl returns ERROR whenever the value of a numeric field it
\* consumes does not parse as a number, for the scene-level fields as well as
\* for the per-band fields.
C20_UnparsedIsFatal ==
  (UnparsedSceneKeys # {} \/ UnparsedBandRecords # {}) =>
    (pc = "returned" /\ retval = "ERROR")

\* a per-band value that does not scan: ERROR at the record
C20_BandValueRejected ==
  /\ UnparsedBandRecords # {}
  /\ pc = "returned" /\ retval = "ERROR"
  /\ stderr = <<"CAL MIN/MAX not readable", "Reading the LPGS MTL file">>


(***************************************************************************)
(* The round trip of a band: a raw binary plane transcoded to GeoTIFF by   *)
(* convert_file_using_library and back by convert_gtif_to_img, with the    *)
(* same band metadata.                                                     *)
(***************************************************************************)
\* the lines, the samples of a line and the byte patterns of the planes
MaxLines == 2

MaxSamps == 2

MaxSeed == 1

\* a plane of n bytes, no two of them equal
RawPlane(seed, n) == [k \in 1..n |-> (seed + 37 * k) % 256]

\* the variables of read_lpgs_mtl and convert_lpgs_to_espa in a run of another
\* function
LpgsVars ==
  <<sr_st_only, group, band_info, band_count, gain_bias_available,
    refl_gain_bias_available, tmp_bmeta, tmp_bmeta_th, tmp_bmeta_pan,
    nlpgs_bands, lpgs_bands, convert_lpgs_bands, x, given, records, unsupported,
    noted>>

NoLpgsRun ==
  /\ sr_st_only = FALSE
  /\ group = <<>>
  /\ band_info = [k \in 0..(MAX_LPGS_BANDS - 1) |-> ZeroBandInfo]
  /\ band_count = 0
  /\ gain_bias_available = FALSE
  /\ refl_gain_bias_available = FALSE
  /\ tmp_bmeta = UninitBmeta
  /\ tmp_bmeta_th = UninitBmeta
  /\ tmp_bmeta_pan = UninitBmeta
  /\ nlpgs_bands = Uninit
  /\ lpgs_bands = [k \in 0..(MAX_LPGS_BANDS - 1) |-> <<>>]
  /\ convert_lpgs_bands = [k \in 0..(MAX_LPGS_BANDS - 1) |-> 16843009]
  /\ x = Uninit
  /\ given = {}
  /\ records = "valid"
  /\ unsupported = {}
  /\ noted = [k \in NotedKeys |-> <<>>]

\* the band metadata parse_metadata gives for a band of the XML file
BandOf(name, file_name, data_type, nlines, nsamps, fill_value) ==
  [name |-> name, file_name |-> file_name, data_type |-> data_type,
   nlines |-> nlines, nsamps |-> nsamps, fill_value |-> fill_value]

\* the metadata of a scene of the given datum, projection and grid origin
SceneOf(datum_type, proj_type, grid_origin, band) ==
  [global |-> [InitGlobalMeta EXCEPT !.datum_type = datum_type,
                                     !.proj_type = proj_type,
                                     !.grid_origin = grid_origin],
   nbands |-> Len(band),
   band   |-> [k \in 0..(Len(band) - 1) |-> band[k + 1]]]

\* the files of the round trip
PlaneImg == <<"plane", ".", "img">>

PlaneTif == <<"plane", ".", "TIF">>

BackImg == <<"back", ".", "img">>

InitTranscode ==
  /\ NoLpgsRun
  /\ pc = "library"
  /\ del_src = FALSE
  /\ \E data_type \in DataTypes, nlines \in 1..MaxLines, nsamps \in 1..MaxSamps,
        seed \in 0..MaxSeed :
       /\ xml_metadata = SceneOf("ESPA_WGS84", "GCTP_UTM_PROJ", <<"CENTER">>,
                           <<BandOf(<<"plane">>, PlaneImg, data_type, nlines, nsamps, 0)>>)
       /\ files = [n \in {PlaneImg} |->
                     RawPlane(seed, nlines * nsamps * ElementSize(data_type))]
  /\ i = 0
  /\ espa_xml_file = <<>>
  /\ stderr = <<>>
  /\ retval = "NONE"
  /\ gtif_file = <<>>
  /\ gtif_xml_file = <<>>
  /\ transcoded = <<>>

\* convert_file_using_library of the plane
ToGtif ==
  /\ pc = "library"
  /\ \E fail \in LibraryFailures :
       LET r == convert_file_using_library(xml_metadata, PlaneImg, PlaneTif, 0,
                                           files, fail)
       IN  /\ files' = r.files
           /\ pc' = IF r.status = "SUCCESS" THEN "img" ELSE "returned"
           /\ retval' = IF r.status = "SUCCESS" THEN retval ELSE r.status
           /\ stderr' = IF r.status = "SUCCESS" THEN stderr ELSE stderr \o <<r.msg>>
           /\ transcoded' = transcoded \o
                <<[step |-> "convert_file_using_library", status |-> r.status,
                   nread |-> 0]>>
  /\ UNCHANGED <<del_src, xml_metadata, i, espa_xml_file, gtif_file, gtif_xml_file>>
  /\ UNCHANGED LpgsVars

\* convert_gtif_to_img of the GeoTIFF to a second raw binary file, with the
\* metadata of the plane
ToImg ==
  /\ pc = "img"
  /\ \E fail \in GtifFailures :
       LET r == convert_gtif_to_img_data(PlaneTif,
                  [xml_metadata.band[0] EXCEPT !.file_name = BackImg], files, fail)
       IN  /\ files' = r.files
           /\ retval' = r.status
           /\ transcoded' = transcoded \o
                <<[step |-> "convert_gtif_to_img", status |-> r.status,
                   nread |-> r.nread]>>
  /\ pc' = "returned"
  /\ UNCHANGED <<del_src, xml_metadata, i, espa_xml_file, stderr, gtif_file,
                 gtif_xml_file>>
  /\ UNCHANGED LpgsVars

NextTranscode == ToGtif \/ ToImg

SpecTranscode == InitTranscode /\ [][NextTranscode]_vars

\* the data type of the plane
PlaneType == xml_metadata.band[0].data_type

\* the steps of the round trip that ended with the status
Steps(step, status) ==
  {k \in 1..Len(transcoded) : transcoded[k].step = step /\ transcoded[k].status = status}

\* C17: for a band of type uint8, int16 or uint16, the raw binary plane made
\* by convert_file_using_library followed by convert_gtif_to_img, with the same
\* band dimensions, is the original plane, byte for byte and in the same
\* line and sample order.
C17_RoundTrip ==
  (/\ pc = "returned"
   /\ Steps("convert_gtif_to_img", "SUCCESS") # {})
    => /\ PlaneType \in {"ESPA_UINT8", "ESPA_INT16", "ESPA_UINT16"}
       /\ files[BackImg] = files[PlaneImg]
       /\ Len(files[BackImg]) =
            xml_metadata.band[0].nlines * xml_metadata.band[0].nsamps
              * ElementSize(PlaneType)

\* a 16-bit plane of two lines of two samples has made the round trip
C17_TwoLinesBack ==
  /\ pc = "returned" /\ retval = "SUCCESS"
  /\ PlaneType = "ESPA_INT16"
  /\ xml_metadata.band[0].nlines = 2 /\ xml_metadata.band[0].nsamps = 2
  /\ files[PlaneTif].scanlines = <<SubSeq(files[PlaneImg], 1, 4),
                                   SubSeq(files[PlaneImg], 5, 8)>>
  /\ files[BackImg] = files[PlaneImg]

\* C18: convert_gtif_to_img returns ERROR for every data type other than
\* uint8, int16 and uint16, having read no scanline and written no pixel data,
\* and convert_file_using_library takes the eight data types of
\* Espa_data_type and returns ERROR for any other.
C18_DataTypes ==
  /\ (pc # "library") =>
       /\ (PlaneType = "ESPA_OTHER") =>
            /\ Steps("convert_file_using_library", "ERROR") # {}
            /\ PlaneTif \notin DOMAIN files
       /\ (Steps("convert_file_using_library", "ERROR") # {}
             /\ stderr = <<"Unsupported ESPA data type">>) => PlaneType = "ESPA_OTHER"
  /\ (pc = "library" /\ PlaneType # "ESPA_OTHER") =>
       convert_file_using_library(xml_metadata, PlaneImg, PlaneTif, 0, files,
                                  "none").status = "SUCCESS"
  /\ (pc = "img") =>
       \A data_type \in DataTypes \ {"ESPA_UINT8", "ESPA_INT16", "ESPA_UINT16"},
          fail \in GtifFailures :
         LET r == convert_gtif_to_img_data(PlaneTif,
                    [xml_metadata.band[0] EXCEPT !.file_name = BackImg,
                                                 !.data_type = data_type],
                    files, fail)
         IN  /\ r.status = "ERROR"
             /\ r.nread = 0
             /\ BackImg \in DOMAIN r.files => r.files[BackImg] = <<>>
  /\ (pc = "returned" /\ Steps("convert_gtif_to_img", "SUCCESS") # {}) =>
       PlaneType \in {"ESPA_UINT8", "ESPA_INT16", "ESPA_UINT16"}
  /\ (pc = "returned" /\ Steps("convert_file_using_library", "SUCCESS") # {}
        /\ PlaneType \notin {"ESPA_UINT8", "ESPA_INT16", "ESPA_UINT16"}) =>
       /\ retval = "ERROR"
       /\ transcoded[Len(transcoded)].nread = 0
       /\ BackImg \in DOMAIN files => files[BackImg] = <<>>

\* a plane of 32-bit floats is written to GeoTIFF by convert_file_using_library
\* and refused by convert_gtif_to_img, which leaves its output file empty
C18_FloatRefused ==
  /\ pc = "returned" /\ retval = "ERROR"
  /\ PlaneType = "ESPA_FLOAT32"
  /\ PlaneTif \in DOMAIN files
  /\ Len(files[PlaneTif].scanlines) = xml_metadata.band[0].nlines
  /\ Steps("convert_gtif_to_img", "ERROR") # {}
  /\ BackImg \in DOMAIN files /\ files[BackImg] = <<>>


(***************************************************************************)
(* The runs of convert_espa_to_gtif on an XML file of up to MaxGtifBands   *)
(* bands, next to the runs of convert_lpgs_to_espa on a text of up to      *)
(* MaxGtifBands bands.                                                     *)
(***************************************************************************)
MaxGtifBands == 2

\* the name of band k of the XML file: the odd bands have a space in it
GtifName(k) ==
  IF k % 2 = 1 THEN <<"sr", " ", "band">> \o Decimal(k) ELSE <<"qa">> \o Decimal(k)

\* the raw binary file of band k and its header
GtifSource(k) == <<"scene", "_">> \o ReplaceSpaces(GtifName(k)) \o <<".", "img">>

GtifHeader(k) == WithExtension(GtifSource(k), "hdr")

\* band k of the XML file: one line of one sample; the odd bands are uint8
\* with a fill value, the even bands int16 without
GtifBandMeta(k) ==
  BandOf(GtifName(k), GtifSource(k),
         IF k % 2 = 1 THEN "ESPA_UINT8" ELSE "ESPA_INT16", 1, 1,
         IF k % 2 = 1 THEN 0 ELSE ESPA_INT_META_FILL)

\* the scenes of the XML files
GtifScenes ==
  {SceneOf(datum_type, proj_type, grid_origin, [k \in 1..n |-> GtifBandMeta(k)]) :
     datum_type \in {"ESPA_WGS84", "ESPA_NAD83"},
     proj_type \in {"GCTP_GEO_PROJ", "GCTP_UTM_PROJ", "GCTP_ALBERS_PROJ",
                    "GCTP_PS_PROJ", "GCTP_SIN_PROJ"},
     grid_origin \in {<<"CENTER">>, <<"UL">>},
     n \in 1..MaxGtifBands}

\* the base names of the output
GtifBases == {<<"out">>, <<"my", " ", "out">>}

\* the directory of a scene: the raw binary file and the header of each band,
\* but for the headers `missing`
GtifFiles(scene, missing) ==
  [n \in ({GtifSource(k) : k \in 1..scene.nbands}
            \cup {GtifHeader(k) : k \in 1..scene.nbands}) \ missing |->
     IF \E k \in 1..scene.nbands : n = GtifSource(k)
     THEN LET k == CHOOSE j \in 1..scene.nbands : n = GtifSource(j)
          IN  RawPlane(k, ElementSize(GtifBandMeta(k).data_type))
     ELSE <<"ENVI">>]

\* the state when convert_espa_to_gtif is called: espa_xml_file holds the
\* scene of the XML file
InitGtif ==
  /\ NoLpgsRun
  /\ pc = "parse"
  /\ del_src \in BOOLEAN
  /\ gtif_file \in GtifBases
  /\ \E scene \in GtifScenes :
       /\ espa_xml_file = <<scene>>
       /\ \E missing \in {{}, {GtifHeader(scene.nbands)}} :
            files = GtifFiles(scene, missing)
  /\ xml_metadata = InitMetadata
  /\ i = Uninit
  /\ stderr = <<>>
  /\ retval = "NONE"
  /\ gtif_xml_file = <<>>
  /\ transcoded = <<>>

\* validate_xml_file, init_metadata_struct and parse_metadata; `fail` is the
\* one that fails
ParseMetadata ==
  /\ pc = "parse"
  /\ \E fail \in {"none", "validate_xml_file", "parse_metadata"} :
       /\ xml_metadata' = IF fail = "none" THEN espa_xml_file[1] ELSE xml_metadata
       /\ i' = IF fail = "none" THEN 0 ELSE i
       /\ pc' = IF fail = "none" THEN "gtif" ELSE "returned"
       /\ retval' = IF fail = "none" THEN retval ELSE "ERROR"
  /\ UNCHANGED <<del_src, files, espa_xml_file, stderr, gtif_file, gtif_xml_file,
                 transcoded>>
  /\ UNCHANGED LpgsVars

\* one pass of the band loop of convert_espa_to_gtif: convert band i, remove
\* its source if asked to, and take the name of the GeoTIFF into the metadata
GtifBand ==
  /\ pc = "gtif"
  /\ i < xml_metadata.nbands
  /\ \E env \in Environments(xml_metadata.global, files, xml_metadata.band[i].file_name) :
       LET r == GtifStep(xml_metadata, i, gtif_file, del_src, files, env)
           ok == r.status = "SUCCESS"
       IN  /\ files' = r.files
           /\ xml_metadata' = IF ok THEN [xml_metadata EXCEPT !.band[i].file_name = r.gtif_band]
                              ELSE xml_metadata
           /\ i' = IF ok THEN i + 1 ELSE i
           /\ pc' = IF ok THEN "gtif" ELSE "returned"
           /\ retval' = IF ok THEN retval ELSE "ERROR"
           /\ stderr' = stderr \o r.msg
           /\ transcoded' = transcoded \o
                <<[band |-> i, name |-> xml_metadata.band[i].name,
                   gtif_band |-> r.gtif_band, path |-> r.path,
                   library |-> r.library, system |-> r.system,
                   status |-> r.status,
                   deleted |-> DOMAIN files \ DOMAIN r.files]>>
  /\ UNCHANGED <<del_src, espa_xml_file, gtif_file, gtif_xml_file>>
  /\ UNCHANGED LpgsVars

\* after the loop: "Remove the source XML if specified" and "Write the new XML
\* file containing the GeoTIFF band names", to <base>_gtif.xml; `fail` is the
\* one that fails
GtifFinish ==
  /\ pc = "gtif"
  /\ i >= xml_metadata.nbands
  /\ \E fail \in {"none", "write_metadata"} \cup (IF del_src THEN {"unlink"} ELSE {}) :
       /\ espa_xml_file' = IF del_src /\ fail # "unlink" THEN <<>> ELSE espa_xml_file
       /\ gtif_xml_file' =
            IF fail = "none"
            THEN <<[name |-> gtif_file \o <<"_gtif", ".", "xml">>,
                    metadata |-> xml_metadata]>>
            ELSE gtif_xml_file
       /\ retval' = IF fail = "none" THEN "SUCCESS" ELSE "ERROR"
       /\ stderr' = IF fail = "none" THEN stderr
                    ELSE IF fail = "unlink" THEN stderr \o <<"Deleting source file">>
                    ELSE stderr \o <<"Error writing updated XML for the GeoTIFF product">>
  /\ pc' = "returned"
  /\ UNCHANGED <<del_src, xml_metadata, i, files, gtif_file, transcoded>>
  /\ UNCHANGED LpgsVars

\* the texts of the runs of convert_lpgs_to_espa: no two FILE_NAME records of a
\* text name the same band
GtifLpgsIds == {BAND_1, BAND_2}

GtifLpgsLines ==
  {Group("IMAGE_ATTRIBUTES"), Group("PRODUCT_CONTENTS"),
   Scene("SPACECRAFT_ID", <<"LANDSAT_7">>), Scene("SENSOR_ID", <<"ETM">>)}
    \cup {FileNameOf(id) : id \in GtifLpgsIds}
    \cup {Field("DATA_TYPE", "", id, <<"UINT8">>) : id \in GtifLpgsIds}

InitLpgs == InitWith(BOOLEAN, {FALSE}, {FileNameOf(id).value : id \in GtifLpgsIds})

ReadLpgs ==
  \E l \in GtifLpgsLines :
    /\ l.key = "FILE_NAME" =>
         /\ band_count < MaxGtifBands
         /\ \A k \in 0..(band_count - 1) : band_info[k].id # l.id
    /\ ReadLine(l)

NextGtif ==
  \/ ParseMetadata
  \/ GtifBand
  \/ GtifFinish
  \/ ReadLpgs
  \/ EndOfFile
  \/ RemoveUnneededBands
  \/ WriteMetadata
  \/ ConvertBand
  \/ ReturnSuccess

SpecGtif == (InitGtif \/ InitLpgs) /\ [][NextGtif]_vars


\* the projections convert_file_using_library writes
LibraryProjections ==
  {"GCTP_GEO_PROJ", "GCTP_UTM_PROJ", "GCTP_ALBERS_PROJ", "GCTP_PS_PROJ"}

\* the result of convert_file_using_library on band i of a run that is about to
\* convert it, failing at `fail`
LibraryOnBand(fail) ==
  convert_file_using_library(xml_metadata, xml_metadata.band[i].file_name,
    GtifBandName(gtif_file, xml_metadata.band[i].name), i, files, fail)

\* convert_espa_to_gtif is about to convert band i
AtBand == pc = "gtif" /\ i < xml_metadata.nbands

\* C12: each band of convert_espa_to_gtif takes the IAS library if and only
\* if the datum of the scene is WGS84 and gdal_translate otherwise, never
\* both; convert_file_using_library returns ERROR before it opens the output
\* for a datum other than WGS84 and for a projection other than GEO, UTM,
\* ALBERS and PS, so that no GeoTIFF is written by the library for a datum
\* other than WGS84.
C12_OnePathPerBand ==
  /\ \A k \in 1..Len(transcoded) :
       LET e == transcoded[k]
           wgs84 == xml_metadata.global.datum_type = "ESPA_WGS84"
       IN  /\ e.path = (IF wgs84 THEN "library" ELSE "gdal")
           /\ e.path = "library" => e.system = 0 /\ e.library # "NONE"
           /\ e.path = "gdal" => e.library = "NONE"
           /\ e.library = "SUCCESS" =>
                wgs84 /\ xml_metadata.global.proj_type \in LibraryProjections
  /\ AtBand =>
       \A fail \in LibraryFailures :
         (\/ xml_metadata.global.datum_type # "ESPA_WGS84"
          \/ xml_metadata.global.proj_type \notin LibraryProjections)
           => /\ LibraryOnBand(fail).status = "ERROR"
              /\ LibraryOnBand(fail).files = files

\* a WGS84 scene of a projection outside the four: the band takes the library,
\* which returns ERROR and has made no GeoTIFF
C12_LibraryRefusesProjection ==
  /\ pc = "returned" /\ retval = "ERROR"
  /\ xml_metadata.global.datum_type = "ESPA_WGS84"
  /\ xml_metadata.global.proj_type = "GCTP_SIN_PROJ"
  /\ Len(transcoded) = 1
  /\ transcoded[1].path = "library" /\ transcoded[1].library = "ERROR"
  /\ stderr = <<"Unsupported projection code", "Converting espa source file">>
  /\ transcoded[1].gtif_band \notin DOMAIN files

\* the transcode of the band of an entry of `transcoded` has failed
TranscodeFailed(e) ==
  \/ e.path = "library" /\ e.library # "SUCCESS"
  \/ e.path = "gdal" /\ e.system # 0

\* the run of convert_lpgs_to_espa has ended in a failed convert_gtif_to_img
LpgsConvertFailed ==
  /\ gtif_file = <<>>
  /\ pc = "returned"
  /\ stderr # <<>> /\ stderr[Len(stderr)] = "Converting band"

\* C14: in convert_lpgs_to_espa and in convert_espa_to_gtif, when the transcode
\* of band i fails the function returns ERROR at once: no later band is
\* transcoded, no source file is removed any more and convert_espa_to_gtif
\* does not write the updated metadata file.
C14_FailureAborts ==
  /\ \A k \in 1..Len(transcoded) :
       TranscodeFailed(transcoded[k]) =>
         /\ k = Len(transcoded)
         /\ pc = "returned" /\ retval = "ERROR"
         /\ transcoded[k].deleted = {}
         /\ gtif_xml_file = <<>>
  /\ LpgsConvertFailed =>
       /\ retval = "ERROR"
       /\ \A k \in i..(nlpgs_bands - 1) : lpgs_bands[k] \in DOMAIN files
       /\ \A k \in (x + 1)..(xml_metadata.nbands - 1) :
            xml_metadata.band[k].file_name \notin DOMAIN files

\* the library fails on the first of two bands with the sources to be removed:
\* ERROR at once, the sources still there, no GeoTIFF of the second band and
\* no metadata file
C14_LibraryFailureAborts ==
  /\ pc = "returned" /\ retval = "ERROR"
  /\ del_src
  /\ xml_metadata.nbands = 2
  /\ Len(transcoded) = 1 /\ transcoded[1].library = "ERROR"
  /\ {GtifSource(1), GtifHeader(1), GtifSource(2)} \subseteq DOMAIN files
  /\ GtifBandName(gtif_file, GtifName(2)) \notin DOMAIN files
  /\ gtif_xml_file = <<>>

\* C15: on the gdal_translate path every non-zero exit status of the utility
\* and a failure to launch it make convert_espa_to_gtif return ERROR without
\* converting another band; a failure to remove the .aux.xml file is ignored.
C15_FallbackFatal ==
  \A k \in 1..Len(transcoded) :
    LET e == transcoded[k] IN
    e.path = "gdal" =>
      /\ e.system # 0 =>
           /\ e.status = "ERROR"
           /\ k = Len(transcoded)
           /\ pc = "returned" /\ retval = "ERROR"
      /\ (e.system = 0 /\ e.deleted = {}) => e.status = "SUCCESS"

\* system() returns -1: ERROR at once
C15_LaunchFailureFatal ==
  /\ pc = "returned" /\ retval = "ERROR"
  /\ Len(transcoded) = 1
  /\ transcoded[1].path = "gdal" /\ transcoded[1].system = -1
  /\ stderr = <<"Running gdal_translate">>
  /\ xml_metadata.nbands = 2

\* C16: the name of the GeoTIFF of a band is <base>_<band name>.TIF with every
\* space of the band name replaced by an underscore and no other character of
\* the base name, the band name or the extension changed.
C16_OutputName ==
  \A k \in 1..Len(transcoded) :
    LET e == transcoded[k] IN
    (e.path \in {"library", "gdal"}) =>
      e.gtif_band = gtif_file \o <<"_">> \o ReplaceSpaces(e.name) \o <<".", "TIF">>

\* the band "sr band1" of the base name "out" is written to out_sr_band1.TIF
C16_BandNameSpaces ==
  /\ gtif_file = <<"out">>
  /\ Len(transcoded) >= 1
  /\ transcoded[1].name = <<"sr", " ", "band", "1">>
  /\ transcoded[1].status = "SUCCESS"
  /\ transcoded[1].gtif_band = <<"out", "_", "sr", "_", "band", "1", ".", "TIF">>
  /\ transcoded[1].gtif_band \in DOMAIN files

\* C19: the metadata of every successful read_lpgs_mtl has the grid origin
\* CENTER, and convert_file_using_library returns ERROR and writes no output
\* file for metadata whose grid origin is not CENTER.
C19_GridOriginCenter ==
  /\ pc \in {"filter", "write", "convert"} =>
       xml_metadata.global.grid_origin = <<"CENTER">>
  /\ \A k \in 1..Len(transcoded) :
       LET e == transcoded[k] IN
       (e.path = "library" /\ xml_metadata.global.grid_origin # <<"CENTER">>) =>
         /\ e.library = "ERROR"
         /\ e.gtif_band \notin DOMAIN files
  /\ (AtBand /\ xml_metadata.global.grid_origin # <<"CENTER">>) =>
       \A fail \in LibraryFailures :
         /\ LibraryOnBand(fail).status = "ERROR"
         /\ LibraryOnBand(fail).files = files

\* a WGS84 UTM scene with the grid origin UL: the library returns ERROR and
\* has made no GeoTIFF
C19_UpperLeftRefused ==
  /\ pc = "returned" /\ retval = "ERROR"
  /\ xml_metadata.global.datum_type = "ESPA_WGS84"
  /\ xml_metadata.global.proj_type = "GCTP_UTM_PROJ"
  /\ xml_metadata.global.grid_origin = <<"UL">>
  /\ Len(transcoded) = 1 /\ transcoded[1].library = "ERROR"
  /\ stderr = <<"Unsupported corner grid origin", "Converting espa source file">>
  /\ transcoded[1].gtif_band \notin DOMAIN files


(***************************************************************************)
(* The record stream: texts of GROUP and END_GROUP records, records of     *)
(* known and unknown groups and labels, read by read_lpgs_mtl up to the    *)
(* END record.                                                             *)
(***************************************************************************)
\* the number of bands a text of this specification creates
MaxStreamBands == 1

StreamGroups ==
  {<<"IMAGE_ATTRIBUTES">>, <<"PRODUCT_CONTENTS">>, <<"LEVEL1_THERMAL_CONSTANTS">>,
   <<"LANDSAT_METADATA_FILE">>}

StreamLines ==
  {Line("GROUP", "", <<>>, g) : g \in StreamGroups}
    \cup {EndGroup,
          Scene("SPACECRAFT_ID", <<"LANDSAT_8">>), Scene("SENSOR_ID", <<"OLI", "_TIRS">>),
          Scene("ORIGIN", <<"x">>), Scene("WRS_PATH", <<"2">>),
          FileNameOf(BAND_10), Field("K1_CONSTANT", "", BAND_10, <<"7">>)}

InitStream == InitWith({FALSE}, {FALSE}, {})

ReadStream ==
  \E l \in StreamLines :
    /\ l.key = "FILE_NAME" => band_count < MaxStreamBands
    /\ ReadLine(l)

NextStream == ReadStream \/ EndOfFile \/ RemoveUnneededBands \/ WriteMetadata

SpecStream == InitStream /\ [][NextStream]_vars

\* the labels read_lpgs_mtl compares a record of group g with
Recognised(g) ==
  CASE g = <<"LEVEL1_PROCESSING_RECORD">> ->
         {"PROCESSING_SOFTWARE_VERSION", "DATE_PRODUCT_GENERATED"}
    [] g = <<"IMAGE_ATTRIBUTES">> ->
         {"SPACECRAFT_ID", "SENSOR_ID", "DATE_ACQUIRED", "SCENE_CENTER_TIME",
          "SUN_ELEVATION", "SUN_AZIMUTH", "EARTH_SUN_DISTANCE", "WRS_PATH", "WRS_ROW"}
    [] g = <<"PROJECTION_ATTRIBUTES">> ->
         {"MAP_PROJECTION", "DATUM", "UTM_ZONE", "GRID_CELL_SIZE_REFLECTIVE",
          "GRID_CELL_SIZE_THERMAL", "GRID_CELL_SIZE_PANCHROMATIC",
          "REFLECTIVE_SAMPLES", "REFLECTIVE_LINES", "THERMAL_SAMPLES",
          "THERMAL_LINES", "PANCHROMATIC_SAMPLES", "PANCHROMATIC_LINES",
          "VERTICAL_LON_FROM_POLE", "TRUE_SCALE_LAT", "FALSE_EASTING",
          "FALSE_NORTHING", "STANDARD_PARALLEL_1_LAT", "STANDARD_PARALLEL_2_LAT",
          "CENTRAL_MERIDIAN_LON", "ORIGIN_LAT", "CORNER_UL_LAT_PRODUCT",
          "CORNER_UL_LON_PRODUCT", "CORNER_LR_LAT_PRODUCT", "CORNER_LR_LON_PRODUCT",
          "CORNER_UR_LAT_PRODUCT", "CORNER_UR_LON_PRODUCT", "CORNER_LL_LAT_PRODUCT",
          "CORNER_LL_LON_PRODUCT", "CORNER_UL_PROJECTION_X_PRODUCT",
          "CORNER_UL_PROJECTION_Y_PRODUCT", "CORNER_LR_PROJECTION_X_PRODUCT",
          "CORNER_LR_PROJECTION_Y_PRODUCT"}
    [] g = <<"LEVEL1_PROJECTION_PARAMETERS">> -> {"RESAMPLING_OPTION"}
    [] g = <<"PRODUCT_CONTENTS">> ->
         {"FILE_NAME", "DATA_TYPE", "LANDSAT_PRODUCT_ID", "PROCESSING_LEVEL"}
    [] g = <<"LEVEL1_MIN_MAX_PIXEL_VALUE">> -> {"QUANTIZE_CAL"}
    [] g = <<"LEVEL1_RADIOMETRIC_RESCALING">> ->
         {"RADIANCE_MULT", "RADIANCE_ADD", "REFLECTANCE_MULT", "REFLECTANCE_ADD"}
    [] g \in {<<"LEVEL1_TIRS_THERMAL_CONSTANTS">>, <<"LEVEL1_THERMAL_CONSTANTS">>} ->
         {"K1_CONSTANT", "K2_CONSTANT"}
    [] OTHER -> {}

\* in the line loop: a GROUP record makes its value the current group, an
\* END_GROUP record makes the current group empty, no other record touches it,
\* and a record of a label that is not one of the current group changes nothing
\* and is no error
StreamRecords ==
  pc = "read" =>
    \A l \in StreamLines :
      LET st == ProcessLine(ReadState, l) IN
      /\ st.group = (IF l.key = "GROUP" THEN l.value
                     ELSE IF l.key = "END_GROUP" THEN <<>>
                     ELSE group)
      /\ (l.key \notin {"GROUP", "END_GROUP"} \cup Recognised(group)) => st = ReadState

\* the variables of the line loop
StreamState ==
  <<group, band_info, band_count, gain_bias_available, refl_gain_bias_available,
    tmp_bmeta, tmp_bmeta_th, tmp_bmeta_pan, xml_metadata.global, given, noted>>

MaxNameBands == 1

BAND_6_VCID_1 == <<"BAND_", "6", "_VCID_", "1">>
BAND_4X == <<"BAND_", "4", "X">>
ANGLE_SENSOR_ZENITH_BAND_4 == <<"ANGLE_SENSOR_ZENITH_BAND_4">>
ANGLE_SOLAR_AZIMUTH_BAND_4 == <<"ANGLE_SOLAR_AZIMUTH_BAND_4">>
ANGLE_SOLAR_ZENITH_BAND_4 == <<"ANGLE_SOLAR_ZENITH_BAND_4">>
ANGLE_COEFFICIENT == <<"ANGLE_COEFFICIENT">>

QualityIds == {QUALITY_L1_PIXEL, QUALITY_L1_RADIOMETRIC_SATURATION}

AngleIds ==
  {ANGLE_SENSOR_AZIMUTH_BAND_4, ANGLE_SENSOR_ZENITH_BAND_4,
   ANGLE_SOLAR_AZIMUTH_BAND_4, ANGLE_SOLAR_ZENITH_BAND_4}

NameIds ==
  {BAND_1, BAND_6_VCID_1, BAND_4X, ANGLE_COEFFICIENT, METADATA_ODL}
    \cup QualityIds \cup AngleIds

NameLines ==
  {Group("IMAGE_ATTRIBUTES"), Group("PRODUCT_CONTENTS")}
    \cup {Scene("SPACECRAFT_ID", <<v>>) :
            v \in {"LANDSAT_9", "LANDSAT_8", "LANDSAT_7", "LANDSAT_5", "LANDSAT_4"}}
    \cup {Scene("SENSOR_ID", v) :
            v \in {<<"OLI", "_TIRS">>, <<"OLI">>, <<"TIRS">>, <<"ETM">>, <<"TM">>}}
    \cup {FileNameOf(id) : id \in NameIds}

InitNames == InitWith({FALSE}, {FALSE}, {})

ReadNames ==
  \E l \in NameLines :
    /\ l.key = "FILE_NAME" => band_count < MaxNameBands
    /\ ReadLine(l)

NextNames == ReadNames \/ EndOfFile

SpecNames == InitNames /\ [][NextNames]_vars

\* the 4-character prefix of a satellite
PrefixOf(satellite) ==
  CASE satellite = <<"LANDSAT_4">> -> <<"LT04">>
    [] satellite = <<"LANDSAT_5">> -> <<"LT05">>
    [] satellite = <<"LANDSAT_7">> -> <<"LE07">>
    [] satellite = <<"LANDSAT_8">> -> <<"LC08">>
    [] satellite = <<"LANDSAT_9">> -> <<"LC09">>
    [] OTHER -> <<>>

\* the suffix of the band of LPGS identifier id
SuffixOf(id) ==
  CASE id = QUALITY_L1_PIXEL -> <<"PQA">>
    [] id = QUALITY_L1_RADIOMETRIC_SATURATION -> <<"RADSAT">>
    [] id = ANGLE_SENSOR_AZIMUTH_BAND_4 -> <<"SENAZ">>
    [] id = ANGLE_SENSOR_ZENITH_BAND_4 -> <<"SENZEN">>
    [] id = ANGLE_SOLAR_AZIMUTH_BAND_4 -> <<"SOLAZ">>
    [] id = ANGLE_SOLAR_ZENITH_BAND_4 -> <<"SOLZEN">>
    [] OTHER -> <<"DN">>

\* C22: every band of the metadata read_lpgs_mtl returns has a short name made
\* of the non-empty 4-character prefix of its satellite and instrument (LT04,
\* LT05, LE07, LC08, LC09) followed by DN for a numbered band and by PQA,
\* RADSAT, SENAZ, SENZEN, SOLAZ or SOLZEN for the quality and the angle bands.
C22_ShortNames ==
  pc = "filter" =>
    /\ PrefixOf(xml_metadata.global.satellite) # <<>>
    /\ \A k \in 0..(xml_metadata.nbands - 1) :
         xml_metadata.band[k].short_name =
           PrefixOf(xml_metadata.global.satellite) \o SuffixOf(band_info[k].id)

\* a LANDSAT_9 text of the solar zenith band
C22_Landsat9SolarZenith ==
  /\ pc = "filter"
  /\ xml_metadata.global.satellite = <<"LANDSAT_9">>
  /\ xml_metadata.nbands = 1
  /\ band_info[0].id = ANGLE_SOLAR_ZENITH_BAND_4
  /\ xml_metadata.band[0].short_name = <<"LC09", "SOLZEN">>

\* the identifiers that are BAND_n or BAND_n_VCID_m
NumberedIds == {BAND_1, BAND_6_VCID_1}

\* the FILE_NAME records the line loop can read next, and the state each leaves
FileNameSteps ==
  {[l |-> l, st |-> ProcessLine(ReadState, l)] :
     l \in {n \in NameLines : n.key = "FILE_NAME"}}

\* the record created a band of this category in the free slot
Creates(s, category) ==
  /\ s.st.status = "OK"
  /\ s.st.band_count = band_count + 1
  /\ s.st.band_info[band_count].id = s.l.id
  /\ s.st.band_info[band_count].category = category

\* the record created no band
CreatesNone(s) == s.st.status = "OK" /\ s.st.band_count = band_count

InProductContents ==
  pc = "read" /\ group = <<"PRODUCT_CONTENTS">> /\ band_count < MAX_LPGS_BANDS

\* C23: the category of a band is selected by the match of its identifier:
\* an identifier that begins with BAND_ and an integer (BAND_n, BAND_n_VCID_m,
\* and any identifier that goes on after the integer, as BAND_4X) makes an
\* "image" band; QUALITY_L1_PIXEL and QUALITY_L1_RADIOMETRIC_SATURATION,
\* matched whole, make a "qa" band; the four ANGLE_*_BAND_4 identifiers,
\* matched whole, make an "image" band too; any other identifier makes no band.
C23_CategoryByMatch ==
  InProductContents =>
    \A s \in FileNameSteps :
      IF s.l.id \in NumberedIds \cup {BAND_4X} \cup AngleIds THEN Creates(s, "image")
      ELSE IF s.l.id \in QualityIds THEN Creates(s, "qa")
      ELSE CreatesNone(s)

\* the band of an angle identifier is in the metadata as an "image" band
C23_AngleIsImage ==
  /\ pc = "filter"
  /\ xml_metadata.nbands = 1
  /\ band_info[0].id = ANGLE_SENSOR_AZIMUTH_BAND_4
  /\ xml_metadata.band[0].category = "image"
  /\ xml_metadata.band[0].name = <<"sensor_", "azimuth", "_band4">>

\* C23 as stated: exact match only, and a category of their own for the angle
\* bands
C23_ExactThreeCategories ==
  InProductContents =>
    \A s \in FileNameSteps :
      IF s.l.id \in NumberedIds THEN Creates(s, "image")
      ELSE IF s.l.id \in QualityIds THEN Creates(s, "qa")
      ELSE IF s.l.id \in AngleIds
      THEN \E c \in {"angle", "derived-angle"} : Creates(s, c)
      ELSE CreatesNone(s)


(***************************************************************************)
(* The band metadata of the GeoTIFF file written by                        *)
(* convert_file_using_library: the corners and the pixel size.             *)
(***************************************************************************)
\* the projection coordinates of the corners are drawn from 0..MaxCorner
MaxCorner == 2

\* the pixel sizes (x, y) of a band
PixelSizes == {<<30, 30>>, <<15, 15>>, <<30, 15>>}

\* BandMetadata as it would be if the upper right and the lower left corner
\* changed places
BandMetadataSwapped(metadata, band_index) ==
  LET proj_info == metadata.global.proj_info
      band      == metadata.band[band_index]
  IN  [band_number |-> 1, band_name |-> band.name,
       upper_left_x  |-> proj_info.ul_corner[1],
       upper_left_y  |-> proj_info.ul_corner[2],
       upper_right_x |-> proj_info.ul_corner[1],
       upper_right_y |-> proj_info.lr_corner[2],
       lower_left_x  |-> proj_info.lr_corner[1],
       lower_left_y  |-> proj_info.ul_corner[2],
       lower_right_x |-> proj_info.lr_corner[1],
       lower_right_y |-> proj_info.lr_corner[2],
       projection_distance_x |-> band.pixel_size[1],
       projection_distance_y |-> band.pixel_size[2]]

\* "Set up the available band metadata fields that will be written to the
\* output GeoTIFF file": bmd of convert_file_using_library (ul_corner[0] and
\* ul_corner[1] of the code are elements 1 and 2 here)
BandMetadata(metadata, band_index) ==
  LET proj_info == metadata.global.proj_info
      band      == metadata.band[band_index]
  IN  [band_number |-> 1, band_name |-> band.name,
       upper_left_x  |-> proj_info.ul_corner[1],
       upper_left_y  |-> proj_info.ul_corner[2],
       upper_right_x |-> proj_info.lr_corner[1],
       upper_right_y |-> proj_info.ul_corner[2],
       lower_left_x  |-> proj_info.ul_corner[1],
       lower_left_y  |-> proj_info.lr_corner[2],
       lower_right_x |-> proj_info.lr_corner[1],
       lower_right_y |-> proj_info.lr_corner[2],
       projection_distance_x |-> band.pixel_size[1],
       projection_distance_y |-> band.pixel_size[2]]

\* ias_l1g_set_band_metadata(l1g_image, &bmd, 1): the image file keeps the
\* band metadata
ias_l1g_set_band_metadata(image, bmd) ==
  [scanlines |-> image.scanlines, bmd |-> bmd]

\* the failures of convert_file_using_library that leave the output file
\* without band metadata
BeforeBandMetadata ==
  {"open_raw_binary", "ias_misc_get_sizeof_data_type", "ias_l1g_open_image",
   "ias_l1g_set_file_metadata", "ias_l1g_set_band_metadata"}

\* the files of the transcode
CornerImg == <<"corner", ".", "img">>
CornerTif == <<"corner", ".", "tif">>

\* a WGS84 scene of one 1 x 1 band of 8-bit data, with its two projection
\* corners and the pixel size of the band
InitCorners ==
  /\ NoLpgsRun
  /\ pc = "library"
  /\ del_src = FALSE
  /\ \E ul \in (0..MaxCorner) \X (0..MaxCorner), lr \in (0..MaxCorner) \X (0..MaxCorner),
        pixel_size \in PixelSizes, proj_type \in {"GCTP_UTM_PROJ", "GCTP_PS_PROJ"} :
       LET scene == SceneOf("ESPA_WGS84", proj_type, <<"CENTER">>,
                            <<BandOf(<<"corner">>, CornerImg, "ESPA_UINT8", 1, 1, 0)>>)
       IN  xml_metadata =
             [global |-> [proj_type   |-> scene.global.proj_type,
                          datum_type  |-> scene.global.datum_type,
                          grid_origin |-> scene.global.grid_origin,
                          proj_info   |-> [ul_corner |-> ul, lr_corner |-> lr]],
              nbands |-> 1,
              band   |-> [k \in {0} |->
                            [name |-> scene.band[0].name,
                             file_name |-> scene.band[0].file_name,
                             data_type |-> scene.band[0].data_type,
                             nlines |-> 1, nsamps |-> 1, fill_value |-> 0,
                             pixel_size |-> pixel_size]]]
  /\ files = [n \in {CornerImg} |-> RawPlane(0, 1)]
  /\ i = 0
  /\ espa_xml_file = <<>>
  /\ stderr = <<>>
  /\ retval = "NONE"
  /\ gtif_file = <<>>
  /\ gtif_xml_file = <<>>
  /\ transcoded = <<>>

\* convert_file_using_library of the band, band metadata included
LibraryTranscode ==
  /\ pc = "library"
  /\ \E fail \in LibraryFailures :
       LET r == convert_file_using_library(xml_metadata, CornerImg, CornerTif, 0,
                                           files, fail)
       IN  /\ files' = IF CornerTif \in DOMAIN r.files /\ fail \notin BeforeBandMetadata
                       THEN Store(r.files, CornerTif,
                                  ias_l1g_set_band_metadata(r.files[CornerTif],
                                                            BandMetadata(xml_metadata, 0)))
                       ELSE r.files
           /\ retval' = r.status
           /\ stderr' = IF r.status = "SUCCESS" THEN stderr ELSE stderr \o <<r.msg>>
           /\ transcoded' = transcoded \o
                <<[step |-> "convert_file_using_library", status |-> r.status,
                   nread |-> 0]>>
  /\ pc' = "returned"
  /\ UNCHANGED <<del_src, xml_metadata, i, espa_xml_file, gtif_file, gtif_xml_file>>
  /\ UNCHANGED LpgsVars

NextCorners == LibraryTranscode

SpecCorners == InitCorners /\ [][NextCorners]_vars

\* C24: the band metadata convert_file_using_library writes to the GeoTIFF
\* file has UL = (UL.x, UL.y), LR = (LR.x, LR.y), UR = (LR.x, UL.y) and
\* LL = (UL.x, LR.y) of the scene's two projection corners, and the pixel
\* sizes of the band descriptor unchanged.
C24_BandCorners ==
  (pc = "returned" /\ retval = "SUCCESS") =>
    LET bmd == files[CornerTif].bmd
        ul  == xml_metadata.global.proj_info.ul_corner
        lr  == xml_metadata.global.proj_info.lr_corner
    IN  /\ <<bmd.upper_left_x, bmd.upper_left_y>> = ul
        /\ <<bmd.lower_right_x, bmd.lower_right_y>> = lr
        /\ <<bmd.upper_right_x, bmd.upper_right_y>> = <<lr[1], ul[2]>>
        /\ <<bmd.lower_left_x, bmd.lower_left_y>> = <<ul[1], lr[2]>>
        /\ <<bmd.projection_distance_x, bmd.projection_distance_y>> =
             xml_metadata.band[0].pixel_size

\* a transcoded band whose four corners are four different points and whose
\* pixel is not square
C24_FourCorners ==
  /\ pc = "returned"
  /\ retval = "SUCCESS"
  /\ xml_metadata.global.proj_info.ul_corner = <<0, 2>>
  /\ xml_metadata.global.proj_info.lr_corner = <<2, 0>>
  /\ xml_metadata.band[0].pixel_size = <<30, 15>>
  /\ files[CornerTif].bmd.upper_right_x = 2
  /\ files[CornerTif].bmd.lower_left_y = 0
  /\ files[CornerTif].scanlines = <<RawPlane(0, 1)>>


(***************************************************************************)
(* The thermal constants and the reflectance rescaling: texts of a thermal *)
(* and a reflective band with and without their K1/K2 and REFLECTANCE      *)
(* records.                                                                *)
(***************************************************************************)
\* the number of bands a text of this specification creates
MaxThermalBands == 2

ThermalLines ==
  {Group("IMAGE_ATTRIBUTES"), Group("PRODUCT_CONTENTS"),
   Group("LEVEL1_RADIOMETRIC_RESCALING"), Group("LEVEL1_THERMAL_CONSTANTS"),
   Scene("SPACECRAFT_ID", <<"LANDSAT_8">>), Scene("SENSOR_ID", <<"OLI", "_TIRS">>),
   FileNameOf(BAND_10), FileNameOf(BAND_4),
   Field("K1_CONSTANT", "", BAND_10, <<"7">>),
   Field("K2_CONSTANT", "", BAND_10, <<"1">>),
   Field("REFLECTANCE_MULT", "", BAND_4, <<"2">>),
   Field("REFLECTANCE_ADD", "", BAND_4, <<"3">>)}

InitThermal == InitWith({FALSE}, {FALSE}, {})

\* a FILE_NAME record creates a band the text has not created yet
ReadThermal ==
  \E l \in ThermalLines :
    /\ l.key = "FILE_NAME" =>
         /\ band_count < MaxThermalBands
         /\ \A k \in 0..(band_count - 1) : band_info[k].id # l.id
    /\ ReadLine(l)

NextThermal == ReadThermal \/ EndOfFile

SpecThermal == InitThermal /\ [][NextThermal]_vars

\* the text gave the field of the band of identifier id
Given(id, field) == \E r \in given : r.id = id /\ r.field = field

\* the finalized descriptor of the band of identifier id has `value` in `field`
Carried(id, field, value) ==
  \A k \in 0..(xml_metadata.nbands - 1) :
    band_info[k].id = id => xml_metadata.band[k][field] = value

\* C25: when the text has K1_CONSTANT and K2_CONSTANT records of a thermal
\* band, the finalized descriptor of the band has them, whether or not the
\* text has any REFLECTANCE_MULT record; when it has the reflectance gain and
\* bias of a non-thermal image band, the descriptor of that band has them.
C25_ConstantsCarried ==
  (pc = "filter" /\ records = "valid") =>
    /\ (Given(BAND_10, "k1") /\ Given(BAND_10, "k2")) =>
         (Carried(BAND_10, "k1_const", 7) /\ Carried(BAND_10, "k2_const", 1))
    /\ (Given(BAND_4, "refl_gain") /\ Given(BAND_4, "refl_bias")) =>
         (Carried(BAND_4, "refl_gain", 2) /\ Carried(BAND_4, "refl_bias", 3))

\* a text of both bands with all four records: the thermal band has its K
\* constants and the reflective band its reflectance gain and bias
C25_BothBandsCarried ==
  /\ pc = "filter"
  /\ records = "valid"
  /\ xml_metadata.nbands = 2
  /\ band_info[0].id = BAND_10
  /\ band_info[1].id = BAND_4
  /\ xml_metadata.band[0].k1_const = 7
  /\ xml_metadata.band[0].k2_const = 1
  /\ xml_metadata.band[1].refl_gain = 2
  /\ xml_metadata.band[1].refl_bias = 3


(***************************************************************************)
(* The order of the records: texts of a TM scene whose SENSOR_ID record    *)
(* comes before or after the FILE_NAME record of band 6, with the thermal  *)
(* and the reflective number of lines.                                     *)
(***************************************************************************)
\* the number of bands a text of this specification creates
MaxOrderBands == 1

OrderLines ==
  {Group("IMAGE_ATTRIBUTES"), Group("PRODUCT_CONTENTS"), Group("PROJECTION_ATTRIBUTES"),
   Scene("SPACECRAFT_ID", <<"LANDSAT_5">>), Scene("SENSOR_ID", <<"TM">>),
   FileNameOf(BAND_6), FileNameOf(BAND_4),
   Scene("THERMAL_LINES", <<"1">>), Scene("REFLECTIVE_LINES", <<"2">>)}

InitOrder == InitWith({FALSE}, {FALSE}, {})

ReadOrder ==
  \E l \in OrderLines :
    /\ l.key = "FILE_NAME" => band_count < MaxOrderBands
    /\ ReadLine(l)

NextOrder == ReadOrder \/ EndOfFile

SpecOrder == InitOrder /\ [][NextOrder]_vars

\* C26: the thermal flag and the dimensions of a band depend on its
\* identifier and on the scene's instrument only, not on the place of the
\* SENSOR_ID record: in every successful read of a TM text, band 6 is thermal
\* and has the thermal number of lines the text gives.
C26_OrderIndependent ==
  (pc = "filter" /\ xml_metadata.global.instrument = <<"TM">>) =>
    \A k \in 0..(xml_metadata.nbands - 1) :
      band_info[k].id = BAND_6 =>
        /\ band_info[k].thermal
        /\ tmp_bmeta_th.nlines = 1 => xml_metadata.band[k].nlines = 1

\* SENSOR_ID read before FILE_NAME_BAND_6: band 6 is thermal and has the
\* thermal number of lines, not the reflective one
C26_SensorFirst ==
  /\ pc = "filter"
  /\ xml_metadata.global.instrument = <<"TM">>
  /\ xml_metadata.nbands = 1
  /\ band_info[0].id = BAND_6
  /\ band_info[0].thermal
  /\ tmp_bmeta.nlines = 2
  /\ xml_metadata.band[0].nlines = 1


(***************************************************************************)
(* The band table: texts of as many FILE_NAME records as band_info[] has   *)
(* slots, and more.                                                        *)
(***************************************************************************)
TableLines ==
  {Group("IMAGE_ATTRIBUTES"), Group("PRODUCT_CONTENTS"),
   Scene("SPACECRAFT_ID", <<"LANDSAT_8">>), Scene("SENSOR_ID", <<"OLI">>),
   FileNameOf(BAND_1), FileNameOf(METADATA_ODL),
   Field("DATA_TYPE", "", BAND_1, <<"UINT16">>),
   Field("DATA_TYPE", "", BAND_9, <<"UINT16">>)}

InitTable == InitWith({FALSE}, {FALSE}, {})

ReadTable == \E l \in TableLines : ReadLine(l)

NextTable == ReadTable \/ EndOfFile

SpecTable == InitTable /\ [][NextTable]_vars

\* C27: every write to and lookup in the band table stays within its
\* MAX_LPGS_BANDS slots: no FILE_NAME record is stored at an index of
\* MAX_LPGS_BANDS or more, get_band_info never scans past the last slot, and
\* a text of more bands than slots is rejected with ERROR before a slot out of
\* range is touched.
C27_WithinTable ==
  /\ pc # "undefined"
  /\ band_count <= MAX_LPGS_BANDS
  /\ band_count = MAX_LPGS_BANDS => pc \in {"read", "filter", "returned"}

\* a text of exactly MAX_LPGS_BANDS bands is read with every slot in use
C27_FullTable ==
  /\ pc = "filter"
  /\ band_count = MAX_LPGS_BANDS
  /\ xml_metadata.nbands = MAX_LPGS_BANDS
  /\ \A k \in 0..(MAX_LPGS_BANDS - 1) : band_info[k].id = BAND_1
  /\ band_info[0].data_type = "ESPA_UINT16"


\* C28: when convert_espa_to_gtif deletes its sources, a source band file is
\* deleted only after the GeoTIFF file that replaces it exists, and the source
\* XML file only after <base>_gtif.xml has been written: a run that returns
\* ERROR never leaves the scene without both metadata files.
C28_DeleteAfterReplace ==
  gtif_file \in GtifBases =>
    /\ \A k \in 1..Len(transcoded) :
         transcoded[k].deleted # {} => transcoded[k].gtif_band \in DOMAIN files
    /\ espa_xml_file = <<>> => gtif_xml_file # <<>>

\* a run with del_src that succeeds: every source file is gone, its GeoTIFF
\* file is there, and the metadata are in <base>_gtif.xml
C28_SourcesReplaced ==
  /\ gtif_file \in GtifBases
  /\ del_src
  /\ pc = "returned"
  /\ retval = "SUCCESS"
  /\ Len(transcoded) = MaxGtifBands
  /\ \A k \in 1..Len(transcoded) :
       /\ transcoded[k].deleted # {}
       /\ transcoded[k].gtif_band \in DOMAIN files
  /\ espa_xml_file = <<>>
  /\ gtif_xml_file # <<>>


(***************************************************************************)
(* The handles and the buffer of convert_gtif_to_img: one call on a        *)
(* GeoTIFF file of each data type, failing at each place it can fail.      *)
(***************************************************************************)
\* the files of the call
HandleTif == <<"band", ".", "TIF">>
HandleImg == <<"band", ".", "img">>

InitHandles ==
  /\ NoLpgsRun
  /\ pc = "img"
  /\ del_src = FALSE
  /\ \E data_type \in DataTypes, nlines \in 1..MaxLines, nsamps \in 1..MaxSamps,
        seed \in 0..MaxSeed, present \in BOOLEAN :
       /\ xml_metadata = SceneOf("ESPA_WGS84", "GCTP_UTM_PROJ", <<"CENTER">>,
                           <<BandOf(<<"band">>, HandleImg, data_type, nlines, nsamps, 0)>>)
       /\ files = [n \in (IF present THEN {HandleTif} ELSE {}) |->
                     ias_l1g_write_image(nlines, nsamps, ElementSize(data_type),
                        RawPlane(seed, nlines * nsamps * ElementSize(data_type)))]
  /\ i = 0
  /\ espa_xml_file = <<>>
  /\ stderr = <<>>
  /\ retval = "NONE"
  /\ gtif_file = <<>>
  /\ gtif_xml_file = <<>>
  /\ transcoded = <<>>

\* convert_gtif_to_img (HandleTif, &xml_metadata.band[0], &xml_metadata.global)
ConvertGtif ==
  /\ pc = "img"
  /\ \E fail \in GtifFailures :
       LET r == convert_gtif_to_img_data(HandleTif, xml_metadata.band[0], files, fail)
       IN  /\ files' = r.files
           /\ retval' = r.status
           /\ transcoded' = transcoded \o
                <<[step |-> "convert_gtif_to_img", status |-> r.status,
                   nread |-> r.nread,
                   held |-> convert_gtif_to_img_held(HandleTif, xml_metadata.band[0],
                                                     files, fail)]>>
  /\ pc' = "returned"
  /\ UNCHANGED <<del_src, xml_metadata, i, espa_xml_file, stderr, gtif_file,
                 gtif_xml_file>>
  /\ UNCHANGED LpgsVars

NextHandles == ConvertGtif

SpecHandles == InitHandles /\ [][NextHandles]_vars

\* C29: on every return path of convert_gtif_to_img the TIFF handle, the raw
\* binary handle and the image buffer have been released.
C29_AllReleased ==
  \A k \in 1..Len(transcoded) : transcoded[k].held = {}

\* a call that succeeds: the image and its header are written and nothing is
\* held
C29_ReleasedOnSuccess ==
  /\ pc = "returned"
  /\ retval = "SUCCESS"
  /\ Len(transcoded) = 1
  /\ transcoded[1].held = {}
  /\ transcoded[1].nread = MaxLines
  /\ HandleImg \in DOMAIN files
  /\ EnviHeaderName(HandleImg) \in DOMAIN files


\* C30: the header convert_gtif_to_img writes for a band is named as the
\* band's raw binary file with the final .img replaced by .hdr, for every
\* product id, one that contains a '.' included: the name under which
\* convert_espa_to_gtif looks for the header of the band.
C30_HeaderName ==
  (pc = "returned" /\ retval = "SUCCESS") =>
    \A k \in 0..(xml_metadata.nbands - 1) :
      LET img_file == xml_metadata.band[k].file_name IN
      /\ img_file \in DOMAIN files
      /\ EnviHeaderName(img_file) = WithExtension(img_file, "hdr")
      /\ WithExtension(img_file, "hdr") \in DOMAIN files

\* a successful run on a product id without '.': the header of the band is
\* where convert_espa_to_gtif looks for it
C30_HeaderFound ==
  /\ pc = "returned"
  /\ retval = "SUCCESS"
  /\ xml_metadata.global.product_id = ESPA_STRING_META_FILL
  /\ xml_metadata.nbands = 1
  /\ xml_metadata.band[0].file_name = <<"undefined", "_", "b", "1", ".", "img">>
  /\ <<"undefined", "_", "b", "1", ".", "hdr">> \in DOMAIN files
  /\ WithExtension(xml_metadata.band[0].file_name, "hdr") \in DOMAIN files

=============================================================================
